---- MODULE Spec2Model ----
(***************************************************************************)
(* The state-to-narrative derivation engine of backend/game_state_manager  *)
(* (GameStateManager): the crisis classifier get_crisis_level, the         *)
(* resource labeler get_resource_status and the directive composer         *)
(* generate_consequence_context / generate_scene_prompt, applied to        *)
(* PlayerState snapshots.                                                  *)
(*                                                                         *)
(* health_ratio = health / max_health is a Python float.  Division is      *)
(* correctly rounded and the literals 0.25, 0.4, 0.5, 0.7 are the doubles  *)
(* nearest to 1/4, 2/5, 1/2, 7/10, so for the integers of this model       *)
(* (far below 2^50) "health_ratio <= n/d" is exactly h*d <= n*m; the model *)
(* compares the ratio by cross-multiplication.                             *)
(***************************************************************************)
EXTENDS Integers, Sequences, FiniteSets, TLC

VARIABLES
    state,      \* the PlayerState snapshot handed to the GameStateManager
    crisis,     \* what get_crisis_level returned for it, NotCalled before the call
    resources,  \* what get_resource_status returned for it, NoStatus before the call
    prompt,     \* what generate_scene_prompt returned for it, NoPrompt before the call
    args,       \* the theme and choice_made of that generate_scene_prompt call
    consequence_context,  \* what generate_consequence_context returned, NoContext before
    applied,    \* what apply_choice_consequences returned for it, NotApplied before
    action_consequences,  \* GameStateManager.action_consequences: keyword -> description
    random_draws,         \* how many numbers were drawn from the random module
    fresh_state,  \* what handle_death returned, NoFreshState before the call
    last_call,    \* the most recent call that replaced the state of a run
    game_state_table,    \* the item with game_id 'global', NoItem when absent
    story_scenes_table,  \* scene_id -> the stored scene
    stats_table,         \* scene_counts and choice_count
    initial_items,       \* the contents of the list INITIAL_PLAYER_STATE['items']
    requests_left,       \* how many more requests the run takes
    faults_left,         \* how many more storage calls can raise in the run
    last_request,        \* what the most recent request saw and did
    response,            \* what lambda_handler returned last, NoResponse before
    in_flight            \* the concurrent choice requests: where each one is

deathVars == <<fresh_state, last_call>>

lambdaVars ==
    <<game_state_table, story_scenes_table, stats_table, initial_items,
      requests_left, faults_left, last_request, response, in_flight>>

vars ==
    <<state, crisis, resources, prompt, args, consequence_context, applied,
      action_consequences, random_draws, deathVars, lambdaVars>>

-----------------------------------------------------------------------------
(* Bounds of the input domain *)

MaxFood == 2
MaxCurses == 3
MaxDeaths == 9

-----------------------------------------------------------------------------
(* class CrisisLevel(Enum), class ReputationType(Enum) *)

CrisisLevel == {"thriving", "stable", "struggling", "desperate", "critical"}

ReputationType ==
    {"unknown", "hero", "diplomat", "merchant", "thief", "murderer", "feared", "corrupted"}

(* Results a call can leave: Python's None (a function that falls off its end)
   and ZeroDivisionError (health / max_health with max_health == 0). *)
None == "None"
ZeroDivisionError == "ZeroDivisionError"
KeyError == "KeyError"

(* No call was made yet on the current snapshot. *)
NotCalled == "NotCalled"
NoStatus == [k \in {} |-> ""]
NoPrompt == << >>
NoArgs == [k \in {} |-> ""]
NoContext == << >>
NotApplied == [k \in {} |-> ""]
NoFreshState == [k \in {} |-> ""]
NoCall == [k \in {} |-> ""]
NoScene == [k \in {} |-> ""]
NoPlayerState == [k \in {} |-> ""]
NoItem == [k \in {} |-> ""]
NoScenes == [k \in {} |-> NoScene]
NoCounts == [k \in {} |-> 0]
NoRequest == [k \in {} |-> ""]
NoResponse == [k \in {} |-> ""]
NoRequests == [k \in {} |-> ""]

-----------------------------------------------------------------------------
(* @dataclass PlayerState with the defaults of its fields and __post_init__ *)

PlayerState(health, max_health, gold, food, level, corruption, reputation, curses) ==
    [ health |-> health,
      max_health |-> max_health,
      gold |-> gold,
      food |-> food,
      items |-> <<"rusty_dagger">>,
      level |-> level,
      experience |-> 0,
      corruption |-> corruption,
      reputation |-> reputation,
      deaths |-> 0,
      scene_history |-> << >>,
      curses |-> curses,
      permanent_injuries |-> << >>,
      last_choice_consequences |-> << >> ]

DefaultState == PlayerState(100, 100, 10, 3, 1, 0, "unknown", << >>)

(* The scenarios of the module's __main__ block *)
ScenarioHealthyStart == DefaultState
ScenarioCriticalHealth == PlayerState(15, 100, 3, 0, 1, 0, "unknown", << >>)
ScenarioHighCorruption == PlayerState(80, 100, 10, 3, 1, 75, "murderer", << >>)
ScenarioThriving == PlayerState(150, 150, 200, 10, 5, 0, "unknown", << >>)

Scenarios ==
    {ScenarioHealthyStart, ScenarioCriticalHealth, ScenarioHighCorruption, ScenarioThriving}

(* GameStateManager.__init__: the keywords of action_consequences, each with
   the 'description' of its entry; the effect lambdas of an entry are read by
   the disabled part of apply_choice_consequences only *)
ActionConsequences ==
    [ fight |-> "violent confrontation",
      attack |-> "aggressive action",
      kill |-> "lethal violence",
      speak |-> "diplomatic approach",
      negotiate |-> "peaceful negotiation",
      help |-> "selfless assistance",
      rest |-> "recuperation",
      eat |-> "sustenance",
      search |-> "risky exploration",
      steal |-> "criminal activity",
      magic |-> "arcane manipulation" ]

-----------------------------------------------------------------------------
(* get_crisis_level *)

(* health_ratio <= n/d and health_ratio >= n/d for health_ratio = health / max_health *)
RatioLE(s, n, d) == s.health * d <= n * s.max_health
RatioGE(s, n, d) == s.health * d >= n * s.max_health

IsCritical_StrictRatio(s) ==
    \/ s.health * 4 < s.max_health
    \/ s.food = 0
    \/ Len(s.curses) >= 3

IsCritical_NoFoodRule(s) ==
    \/ RatioLE(s, 1, 4)
    \/ Len(s.curses) >= 3

(* if health_ratio <= 0.25 or state.food == 0 or len(state.curses) >= 3 *)
IsCritical(s) ==
    \/ RatioLE(s, 1, 4)
    \/ s.food = 0
    \/ Len(s.curses) >= 3

IsDesperate_OrInsteadOfAnd(s) ==
    \/ (RatioLE(s, 2, 5) \/ s.food <= 1)
    \/ s.corruption >= 70

(* if (health_ratio <= 0.4 and state.food <= 1) or state.corruption >= 70 *)
IsDesperate(s) ==
    \/ (RatioLE(s, 2, 5) /\ s.food <= 1)
    \/ s.corruption >= 70

IsStruggling_StrictGold(s) ==
    \/ RatioLE(s, 1, 2)
    \/ s.food <= 1
    \/ s.gold < 5
    \/ s.corruption >= 50

(* if health_ratio <= 0.5 or state.food <= 1 or state.gold <= 5 or state.corruption >= 50 *)
IsStruggling(s) ==
    \/ RatioLE(s, 1, 2)
    \/ s.food <= 1
    \/ s.gold <= 5
    \/ s.corruption >= 50

IsStable_StrictGold(s) ==
    /\ RatioGE(s, 7, 10)
    /\ s.food >= 2
    /\ s.gold > 20

IsStable_GoldTen(s) ==
    /\ RatioGE(s, 7, 10)
    /\ s.food >= 2
    /\ s.gold >= 10

IsStable_RatioAbove(s) ==
    /\ s.health * 10 > 7 * s.max_health
    /\ s.food >= 2
    /\ s.gold >= 20

(* if health_ratio >= 0.7 and state.food >= 2 and state.gold >= 20 *)
IsStable(s) ==
    /\ RatioGE(s, 7, 10)
    /\ s.food >= 2
    /\ s.gold >= 20

get_crisis_level_NoFallback(s) ==
    IF s.max_health = 0 THEN ZeroDivisionError
    ELSE IF IsCritical(s) THEN "critical"
    ELSE IF IsDesperate(s) THEN "desperate"
    ELSE IF IsStruggling(s) THEN "struggling"
    ELSE IF IsStable(s) THEN "stable"
    ELSE None

get_crisis_level(s) ==
    IF s.max_health = 0 THEN ZeroDivisionError
    ELSE IF IsCritical(s) THEN "critical"
    ELSE IF IsDesperate(s) THEN "desperate"
    ELSE IF IsStruggling(s) THEN "struggling"
    ELSE IF IsStable(s) THEN "stable"
    ELSE "thriving"

-----------------------------------------------------------------------------
(* get_resource_status *)

HealthStatus_ByRatio(s) ==
    IF s.health * 100 <= 30 * s.max_health THEN "CRITICAL - near death"
    ELSE IF s.health * 100 <= 60 * s.max_health THEN "LOW - badly injured"
    ELSE "GOOD - healthy"

HealthStatus(s) ==
    IF s.health <= 30 THEN "CRITICAL - near death"
    ELSE IF s.health <= 60 THEN "LOW - badly injured"
    ELSE "GOOD - healthy"

FoodStatus(s) ==
    IF s.food = 0 THEN "STARVING - immediate danger"
    ELSE IF s.food = 1 THEN "HUNGRY - need food soon"
    ELSE "FED - adequate supplies"

GoldStatus(s) ==
    IF s.gold <= 5 THEN "POOR - cannot afford basic items"
    ELSE IF s.gold <= 20 THEN "STRUGGLING - limited purchasing power"
    ELSE "WEALTHY - can afford most things"

CorruptionStatus(s) ==
    IF s.corruption >= 70 THEN "DAMNED - soul nearly lost"
    ELSE IF s.corruption >= 40 THEN "CORRUPTED - moral decay spreading"
    ELSE IF s.corruption >= 20 THEN "TAINTED - darkness creeping in"
    ELSE "PURE - soul intact"

get_resource_status(s) ==
    [ health |-> HealthStatus(s),
      food |-> FoodStatus(s),
      gold |-> GoldStatus(s),
      corruption |-> CorruptionStatus(s) ]

-----------------------------------------------------------------------------
(* generate_consequence_context and generate_scene_prompt.  A text is the
   sequence of its lines, each line without its newline; every piece the code
   appends ends a line, except where noted. *)

(* str.upper() on the values of the two enumerations *)
Upper(v) ==
    CASE v = "thriving" -> "THRIVING"
      [] v = "stable" -> "STABLE"
      [] v = "struggling" -> "STRUGGLING"
      [] v = "desperate" -> "DESPERATE"
      [] v = "critical" -> "CRITICAL"
      [] v = "unknown" -> "UNKNOWN"
      [] v = "hero" -> "HERO"
      [] v = "diplomat" -> "DIPLOMAT"
      [] v = "merchant" -> "MERCHANT"
      [] v = "thief" -> "THIEF"
      [] v = "murderer" -> "MURDERER"
      [] v = "feared" -> "FEARED"
      [] v = "corrupted" -> "CORRUPTED"

(* sep.join(strings) *)
RECURSIVE Join(_, _)
Join(strings, sep) ==
    IF Len(strings) = 0 THEN ""
    ELSE IF Len(strings) = 1 THEN strings[1]
    ELSE strings[1] \o sep \o Join(Tail(strings), sep)

(* str() of a consequences dict: a sequence of <<key, value>> in insertion
   order, a value being [int |-> n] or [str |-> s] *)
ReprValue(v) ==
    IF "int" \in DOMAIN v THEN ToString(v.int) ELSE "'" \o v.str \o "'"

DictStr(d) ==
    "{" \o Join([i \in 1..Len(d) |-> "'" \o d[i][1] \o "': " \o ReprValue(d[i][2])], ", ")
        \o "}"

Truthy_NotNone(text) == text # None

(* truth value of an optional string: None and '' are false *)
Truthy(text) == text \notin {None, ""}

ActiveProblems_NearDeathByRatio(s) ==
       (IF s.food = 0
            THEN <<"- STARVING: Player will die soon without food">> ELSE << >>)
    \o (IF RatioLE(s, 1, 4)
            THEN <<"- NEAR DEATH: Any combat could be fatal">> ELSE << >>)
    \o (IF s.gold <= 5
            THEN <<"- BROKE: Cannot afford basic necessities">> ELSE << >>)
    \o (IF s.corruption >= 50
            THEN <<"- CORRUPTED: Dark choices affecting all interactions">> ELSE << >>)
    \o (IF Len(s.curses) > 0
            THEN <<"- CURSED: " \o Join(s.curses, ", ")>> ELSE << >>)
    \o (IF Len(s.permanent_injuries) > 0
            THEN <<"- INJURED: " \o Join(s.permanent_injuries, ", ")>> ELSE << >>)

ActiveProblems_NearDeathBelow25(s) ==
       (IF s.food = 0
            THEN <<"- STARVING: Player will die soon without food">> ELSE << >>)
    \o (IF s.health < 25
            THEN <<"- NEAR DEATH: Any combat could be fatal">> ELSE << >>)
    \o (IF s.gold <= 5
            THEN <<"- BROKE: Cannot afford basic necessities">> ELSE << >>)
    \o (IF s.corruption >= 50
            THEN <<"- CORRUPTED: Dark choices affecting all interactions">> ELSE << >>)
    \o (IF Len(s.curses) > 0
            THEN <<"- CURSED: " \o Join(s.curses, ", ")>> ELSE << >>)
    \o (IF Len(s.permanent_injuries) > 0
            THEN <<"- INJURED: " \o Join(s.permanent_injuries, ", ")>> ELSE << >>)

(* the problems list of generate_consequence_context *)
ActiveProblems(s) ==
       (IF s.food = 0
            THEN <<"- STARVING: Player will die soon without food">> ELSE << >>)
    \o (IF s.health <= 25
            THEN <<"- NEAR DEATH: Any combat could be fatal">> ELSE << >>)
    \o (IF s.gold <= 5
            THEN <<"- BROKE: Cannot afford basic necessities">> ELSE << >>)
    \o (IF s.corruption >= 50
            THEN <<"- CORRUPTED: Dark choices affecting all interactions">> ELSE << >>)
    \o (IF Len(s.curses) > 0
            THEN <<"- CURSED: " \o Join(s.curses, ", ")>> ELSE << >>)
    \o (IF Len(s.permanent_injuries) > 0
            THEN <<"- INJURED: " \o Join(s.permanent_injuries, ", ")>> ELSE << >>)

(* the context opens with a newline: its first line is empty *)
generate_consequence_context(s, previous_choice) ==
    LET crisis_ == get_crisis_level(s)
        resources_ == get_resource_status(s)
        problems == ActiveProblems(s)
    IN  << "",
           "PLAYER STATE ANALYSIS:",
           "Crisis Level: " \o Upper(crisis_),
           "Health: " \o ToString(s.health) \o "/" \o ToString(s.max_health)
               \o " (" \o resources_.health \o ")",
           "Food: " \o ToString(s.food) \o " (" \o resources_.food \o ")",
           "Gold: " \o ToString(s.gold) \o " (" \o resources_.gold \o ")",
           "Corruption: " \o ToString(s.corruption) \o "/100 ("
               \o resources_.corruption \o ")",
           "Reputation: " \o Upper(s.reputation),
           "Level: " \o ToString(s.level) \o " (XP: " \o ToString(s.experience) \o ")",
           "",
           "ACTIVE PROBLEMS:" >>
        \o (IF Len(problems) > 0 THEN problems ELSE <<"- No immediate threats">>)
        \o (IF Truthy(previous_choice)
                THEN <<"", "PREVIOUS ACTION: " \o previous_choice>>
                     \o (IF Len(s.last_choice_consequences) > 0
                            THEN <<"CONSEQUENCES: " \o DictStr(s.last_choice_consequences)>>
                            ELSE << >>)
                ELSE << >>)

(* the crisis-specific scene requirements *)
SurvivalMode ==
    << "",
       "SURVIVAL MODE - Player is in immediate mortal danger:",
       "- Create life-or-death scenarios where wrong choice = death",
       "- Make resources extremely scarce and expensive",
       "- Show NPCs exploiting player's desperate state",
       "- Offer high-risk/high-reward options vs safe but costly alternatives",
       "- Emphasize time pressure and urgency" >>

DesperationMode ==
    << "",
       "DESPERATION MODE - Player has serious problems:",
       "- Multiple threats affecting player simultaneously",
       "- Resources are scarce and overpriced",
       "- NPCs should notice player's weakness",
       "- Choices should involve difficult moral compromises",
       "- Show consequences of previous poor decisions" >>

ChallengeMode ==
    << "",
       "CHALLENGE MODE - Player faces significant obstacles:",
       "- Present meaningful but manageable risks",
       "- Make resources available but at fair cost",
       "- NPCs react neutrally but opportunities exist",
       "- Balance risk vs reward carefully",
       "- Show paths to improvement requiring sacrifice" >>

GrowthMode ==
    << "",
       "GROWTH MODE - Player is doing well:",
       "- Present opportunities for advancement",
       "- Allow player to help others or pursue goals",
       "- Resources available at normal prices",
       "- Focus on character development choices",
       "- Introduce new challenges appropriate to player's level" >>

PowerMode ==
    << "",
       "POWER MODE - Player is thriving:",
       "- Present choices about using power responsibly",
       "- Allow player to affect larger events/NPCs",
       "- Introduce moral complexity and corruption temptations",
       "- Show how power can corrupt or inspire",
       "- Create scenarios where player's reputation matters" >>

SceneRequirements_NoDesperateBranch(crisis_) ==
    IF crisis_ = "critical" THEN SurvivalMode
    ELSE IF crisis_ = "struggling" THEN ChallengeMode
    ELSE IF crisis_ = "stable" THEN GrowthMode
    ELSE PowerMode

SceneRequirements(crisis_) ==
    IF crisis_ = "critical" THEN SurvivalMode
    ELSE IF crisis_ = "desperate" THEN DesperationMode
    ELSE IF crisis_ = "struggling" THEN ChallengeMode
    ELSE IF crisis_ = "stable" THEN GrowthMode
    ELSE PowerMode

(* the reputation_effects dict *)
reputation_effects ==
    [ hero |-> "NPCs trust you, offer help, but expect heroic behavior",
      murderer |-> "NPCs fear you, demand payment upfront, some flee",
      thief |-> "NPCs guard possessions, watch you suspiciously",
      diplomat |-> "NPCs respect you, offer information and fair deals",
      corrupted |-> "NPCs sense darkness, react with fear or disgust",
      feared |-> "NPCs submit to intimidation but hate you" ]

NpcBehavior_MerchantEntry(s) ==
    IF s.reputation \in DOMAIN reputation_effects
        THEN <<"", "NPC BEHAVIOR: " \o reputation_effects[s.reputation]>>
        ELSE IF s.reputation = "merchant"
            THEN <<"", "NPC BEHAVIOR: NPCs offer trade and expect fair prices">>
            ELSE << >>

NpcBehavior(s) ==
    IF s.reputation \in DOMAIN reputation_effects
        THEN <<"", "NPC BEHAVIOR: " \o reputation_effects[s.reputation]>>
        ELSE << >>

ResourceEconomy(s) ==
    << "",
       "RESOURCE ECONOMY:",
       "- Food costs 5-15 gold (player has " \o ToString(s.gold) \o ")",
       "- Healing costs 20-50 gold",
       "- Magic services cost 30-100 gold",
       "- Make prices reflect player's desperate state if applicable",
       "",
       "CHOICE CONSEQUENCES:",
       "Generate exactly two choices where consequences match current state:" >>

(* the choice consequence templates *)
HighRiskTemplate ==
    << "",
       "Choice A: HIGH RISK (20-40 health loss possible) / HIGH REWARD (significant gold/items)",
       "Choice B: SAFE OPTION (costs gold/food) / SURVIVAL FOCUSED (minimal gain but safer)" >>

ModerateRiskTemplate ==
    << "",
       "Choice A: MODERATE RISK (10-20 health loss) / GOOD REWARD (fair gold/experience gain)",
       "Choice B: LOW RISK (minor costs) / MODEST REWARD (small but reliable gain)" >>

ChoiceTemplate_CriticalOnly(crisis_) ==
    IF crisis_ = "critical" THEN HighRiskTemplate ELSE ModerateRiskTemplate

ChoiceTemplate(crisis_) ==
    IF crisis_ \in {"critical", "desperate"} THEN HighRiskTemplate
    ELSE ModerateRiskTemplate

SceneGeneration ==
    << "",
       "SCENE GENERATION:",
       "1. Create engaging title reflecting current crisis level",
       "2. Write vivid description (2-3 sentences, use \\n for line breaks)",
       "3. Include summary of what happened since last scene",
       "4. Choose appropriate background color for mood",
       "5. Make choices feel meaningfully different",
       "6. Show how player's condition affects the situation",
       "7. Reflect reputation in NPC interactions",
       "8. Make resource scarcity feel real and impactful",
       "",
       "Remember: This player's choices have led to their current state. Show consequences!" >>

generate_scene_prompt_NpcAfterEconomy(s, theme, choice_made) ==
    LET crisis_ == get_crisis_level(s)
        context == generate_consequence_context(s, choice_made)
    IN  << "You are creating an interactive adventure scene for a " \o theme
               \o " themed story.",
           "" >>
        \o context
        \o << "", "SCENE REQUIREMENTS:" >>
        \o SceneRequirements(crisis_)
        \o ResourceEconomy(s)
        \o NpcBehavior(s)
        \o ChoiceTemplate(crisis_)
        \o SceneGeneration

generate_scene_prompt(s, theme, choice_made) ==
    LET crisis_ == get_crisis_level(s)
        context == generate_consequence_context(s, choice_made)
    IN  << "You are creating an interactive adventure scene for a " \o theme
               \o " themed story.",
           "" >>
        \o context
        \o << "", "SCENE REQUIREMENTS:" >>
        \o SceneRequirements(crisis_)
        \o NpcBehavior(s)
        \o ResourceEconomy(s)
        \o ChoiceTemplate(crisis_)
        \o SceneGeneration

-----------------------------------------------------------------------------
(* apply_choice_consequences: its first statement is "return state"; what
   follows that statement never runs *)

apply_choice_consequences(s, choice_text, scene_id) == s

(* is_dead, handle_death: a fresh PlayerState() that carries over the death
   count plus one *)

is_dead(s) == s.health <= 0

handle_death_KeepsGold(s) ==
    [DefaultState EXCEPT !.deaths = s.deaths + 1, !.gold = s.gold]

handle_death_CountsDown(s) ==
    [DefaultState EXCEPT !.deaths = s.deaths - 1]

handle_death(s) ==
    LET fresh == DefaultState
    IN  [fresh EXCEPT !.deaths = s.deaths + 1]

-----------------------------------------------------------------------------
(* The snapshots the manager is applied to.  Every field that a threshold of
   the code reads takes the values on both sides of each threshold. *)

MaxHealthValues == {1, 100, 150}

(* The thresholds that read health: the four ratio tests of get_crisis_level,
   the labels of get_resource_status, NEAR DEATH of the active problems. *)
HealthClass(h, m) ==
    << h * 4 <= m, h * 5 <= 2 * m, h * 2 <= m, h * 10 >= 7 * m,
       h <= 25, h <= 30, h <= 60 >>

(* 0, max_health and the values next to a threshold *)
HealthValues(m) ==
    { h \in 0..m :
        \/ h \in {0, m}
        \/ HealthClass(h, m) # HealthClass(h - 1, m)
        \/ HealthClass(h, m) # HealthClass(h + 1, m) }

GoldValues == {0, 5, 6, 19, 20, 21}

CorruptionValues == {0, 19, 20, 39, 40, 49, 50, 69, 70, 100}

FoodValues == 0..MaxFood

ReputationValues == ReputationType

(* curses is a list of arbitrary strings; "starving" is the tag the code itself
   appends *)
CurseTags == <<"starving", "hexed", "marked">>

(* a curses list of n tags *)
CurseList(n) == [i \in 1..n |-> CurseTags[((i - 1) % Len(CurseTags)) + 1]]

CurseLists == { CurseList(n) : n \in 0..MaxCurses }

(* the invariants of the data model *)
Valid(s) ==
    /\ s.max_health >= 1
    /\ 0 <= s.health /\ s.health <= s.max_health
    /\ s.gold >= 0
    /\ s.food >= 0
    /\ s.level >= 1
    /\ 0 <= s.corruption /\ s.corruption <= 100
    /\ s.reputation \in ReputationType

-----------------------------------------------------------------------------
(* The manager applied to a snapshot *)

(* a manager was constructed and none of its methods was called yet *)
ManagerIdle ==
    /\ crisis = NotCalled
    /\ resources = NoStatus
    /\ prompt = NoPrompt
    /\ args = NoArgs
    /\ consequence_context = NoContext
    /\ applied = NotApplied
    /\ action_consequences = ActionConsequences
    /\ random_draws = 0
    /\ fresh_state = NoFreshState
    /\ last_call = NoCall

(* the Lambda function as deployed: empty tables, the module just loaded,
   no request taken *)
LambdaIdle ==
    /\ game_state_table = NoItem
    /\ story_scenes_table = NoScenes
    /\ stats_table = [scene_counts |-> NoCounts, choice_count |-> 0]
    /\ initial_items = <<"basic_sword", "leather_armor">>
    /\ requests_left = 0
    /\ faults_left = 0
    /\ last_request = NoRequest
    /\ response = NoResponse
    /\ in_flight = NoRequests

NothingCalled ==
    /\ ManagerIdle
    /\ LambdaIdle

Init ==
    /\ \/ \E m \in MaxHealthValues : \E h \in HealthValues(m) :
          \E g \in GoldValues, f \in FoodValues, c \in CorruptionValues,
             r \in ReputationValues, cs \in CurseLists :
               state = PlayerState(h, m, g, f, 1, c, r, cs)
       \/ state \in Scenarios
    /\ NothingCalled

GetCrisisLevel ==
    /\ crisis = NotCalled
    /\ crisis' = get_crisis_level(state)
    /\ UNCHANGED <<state, resources, prompt, args, consequence_context, applied,
                   action_consequences, random_draws, deathVars, lambdaVars>>

GetResourceStatus ==
    /\ resources = NoStatus
    /\ resources' = get_resource_status(state)
    /\ UNCHANGED <<state, crisis, prompt, args, consequence_context, applied,
                   action_consequences, random_draws, deathVars, lambdaVars>>

Next ==
    \/ GetCrisisLevel
    \/ GetResourceStatus

Spec == Init /\ [][Next]_vars

-----------------------------------------------------------------------------
(* The composer applied to a snapshot: the snapshots also vary the fields only
   the directive reads (permanent_injuries, last_choice_consequences), the
   theme and the previous choice are the caller's arguments. *)

PromptHealthValues ==
    { <<25, 100>>, <<26, 100>>, <<50, 100>>, <<51, 100>>, <<100, 100>>,
      <<37, 150>>, <<38, 150>>, <<150, 150>> }

PromptGoldValues == {5, 6, 20}

PromptCorruptionValues == {0, 50, 70}

InjuryLists == { << >>, <<"broken arm", "lost eye">> }

ConsequenceDicts ==
    { << >>,
      << <<"health", [int |-> -25]>>, <<"gold", [int |-> 20]>>,
         <<"reputation", [str |-> "unknown -> feared"]>> >> }

Themes == {"fantasy", "sci_fi"}

Choices == {None, "", "Fight the troll"}

InitPrompt ==
    /\ \/ \E hm \in PromptHealthValues :
          \E g \in PromptGoldValues, f \in FoodValues, c \in PromptCorruptionValues,
             r \in ReputationType, cs \in CurseLists,
             inj \in InjuryLists, lcc \in ConsequenceDicts :
               state = [ PlayerState(hm[1], hm[2], g, f, 1, c, r, cs)
                           EXCEPT !.permanent_injuries = inj,
                                  !.last_choice_consequences = lcc ]
       \/ state \in Scenarios
    /\ NothingCalled

GenerateScenePrompt ==
    /\ prompt = NoPrompt
    /\ \E theme \in Themes, choice_made \in Choices :
          /\ prompt' = generate_scene_prompt(state, theme, choice_made)
          /\ args' = [theme |-> theme, choice_made |-> choice_made]
    /\ UNCHANGED <<state, crisis, resources, consequence_context, applied,
                   action_consequences, random_draws, deathVars, lambdaVars>>

NextPrompt ==
    \/ GetCrisisLevel
    \/ GenerateScenePrompt

SpecPrompt == InitPrompt /\ [][NextPrompt]_vars

-----------------------------------------------------------------------------
(* The four derivations called on one snapshot, in any order *)

InitAll ==
    /\ \/ \E hm \in { <<25, 100>>, <<100, 100>>, <<37, 150>> } :
          \E g \in {5, 20}, f \in FoodValues, c \in {0, 70},
             r \in {"unknown", "hero"}, cs \in CurseLists,
             inj \in InjuryLists, lcc \in ConsequenceDicts :
               state = [ PlayerState(hm[1], hm[2], g, f, 1, c, r, cs)
                           EXCEPT !.permanent_injuries = inj,
                                  !.last_choice_consequences = lcc ]
       \/ state \in Scenarios
    /\ NothingCalled

GenerateConsequenceContext_ClearsConsequences ==
    /\ consequence_context = NoContext
    /\ \E previous_choice \in Choices :
          consequence_context' = generate_consequence_context(state, previous_choice)
    /\ state' = [state EXCEPT !.last_choice_consequences = << >>]
    /\ UNCHANGED <<crisis, resources, prompt, args, applied,
                   action_consequences, random_draws, deathVars, lambdaVars>>

GenerateConsequenceContext ==
    /\ consequence_context = NoContext
    /\ \E previous_choice \in Choices :
          consequence_context' = generate_consequence_context(state, previous_choice)
    /\ UNCHANGED <<state, crisis, resources, prompt, args, applied,
                   action_consequences, random_draws, deathVars, lambdaVars>>

NextAll ==
    \/ GetCrisisLevel
    \/ GetResourceStatus
    \/ GenerateConsequenceContext
    \/ GenerateScenePrompt

SpecAll == InitAll /\ [][NextAll]_vars

-----------------------------------------------------------------------------
(* apply_choice_consequences called on a snapshot *)

ChoiceTexts == {"", "Fight the troll", "Rest by the fire", "Walk on"}

SceneIds == {"start", "scene_1"}

Max(a, b) == IF a >= b THEN a ELSE b

(* the body after the "return state", up to its keyword effects, as it would
   run without that statement: the survival cost, the starvation damage drawn
   with random.randint(15, 25), the scene history *)
ApplyChoiceConsequences_NoEarlyReturn ==
    /\ applied = NotApplied
    /\ \E choice_text \in ChoiceTexts, scene_id \in SceneIds :
          LET food_ == Max(0, state.food - 1)
          IN  IF food_ <= 0
                THEN \E starvation_damage \in 15..25 :
                        /\ applied' =
                              [state EXCEPT
                                 !.food = food_,
                                 !.health = Max(0, @ - starvation_damage),
                                 !.last_choice_consequences =
                                     << <<"starvation_damage", [int |-> starvation_damage]>>,
                                        <<"message",
                                          [str |-> "Starvation weakens you severely"]>> >>,
                                 !.curses =
                                     IF \E i \in DOMAIN @ : @[i] = "starving"
                                        THEN @ ELSE Append(@, "starving"),
                                 !.scene_history = Append(@, scene_id)]
                        /\ random_draws' = random_draws + 1
                ELSE /\ applied' =
                           [state EXCEPT !.food = food_,
                                         !.scene_history = Append(@, scene_id)]
                     /\ random_draws' = random_draws
    /\ UNCHANGED <<state, crisis, resources, prompt, args, consequence_context,
                   action_consequences, deathVars, lambdaVars>>

ApplyChoiceConsequences ==
    /\ applied = NotApplied
    /\ \E choice_text \in ChoiceTexts, scene_id \in SceneIds :
          applied' = apply_choice_consequences(state, choice_text, scene_id)
    /\ UNCHANGED <<state, crisis, resources, prompt, args, consequence_context,
                   action_consequences, random_draws, deathVars, lambdaVars>>

NextApply ==
    \/ ApplyChoiceConsequences

SpecApply == Init /\ [][NextApply]_vars

-----------------------------------------------------------------------------
(* handle_death called on a snapshot *)

InitDeath ==
    /\ \E hm \in { <<0, 100>>, <<25, 100>>, <<150, 150>> } :
       \E g \in {0, 200}, f \in FoodValues, l \in {1, 5}, c \in {0, 75},
          r \in {"unknown", "murderer"}, cs \in CurseLists, d \in 0..MaxDeaths,
          sh \in { << >>, <<"start", "scene_1">> },
          it \in { <<"rusty_dagger">>, <<"rusty_dagger", "torch">> },
          inj \in InjuryLists, lcc \in ConsequenceDicts :
            state = [ PlayerState(hm[1], hm[2], g, f, l, c, r, cs)
                        EXCEPT !.deaths = d,
                               !.scene_history = sh,
                               !.items = it,
                               !.permanent_injuries = inj,
                               !.last_choice_consequences = lcc ]
    /\ NothingCalled

HandleDeath ==
    /\ fresh_state = NoFreshState
    /\ fresh_state' = handle_death(state)
    /\ UNCHANGED <<state, crisis, resources, prompt, args, consequence_context,
                   applied, action_consequences, random_draws, last_call,
                   lambdaVars>>

NextDeath ==
    \/ HandleDeath

SpecDeath == InitDeath /\ [][NextDeath]_vars

-----------------------------------------------------------------------------
(* A run: from a fresh PlayerState(), each call replaces the state of the run
   by what apply_choice_consequences or handle_death returns for it *)

InitRun ==
    /\ state = DefaultState
    /\ NothingCalled

PlayerChoice ==
    /\ \E choice_text \in ChoiceTexts, scene_id \in SceneIds :
          /\ state' = apply_choice_consequences(state, choice_text, scene_id)
          /\ last_call' = [op |-> "apply_choice_consequences",
                           choice_text |-> choice_text, scene_id |-> scene_id]
    /\ applied' = state'
    /\ UNCHANGED <<crisis, resources, prompt, args, consequence_context,
                   action_consequences, random_draws, fresh_state,
                   lambdaVars>>

PlayerDeath ==
    /\ state.deaths < MaxDeaths
    /\ state' = handle_death(state)
    /\ fresh_state' = state'
    /\ last_call' = [op |-> "handle_death"]
    /\ UNCHANGED <<crisis, resources, prompt, args, consequence_context,
                   applied, action_consequences, random_draws,
                   lambdaVars>>

NextRun ==
    \/ PlayerChoice
    \/ PlayerDeath

SpecRun == InitRun /\ [][NextRun]_vars

-----------------------------------------------------------------------------
(* lambda_function.py: the player state that travels with the scenes.
   A dict is a record; its 'items' entry is a reference to a list object, and
   a heap maps the references to the contents of the lists, because
   dict.copy() copies the reference and list.append changes the one object *)

InitialItems == "INITIAL_PLAYER_STATE['items']"
SceneItems == "scene['player_state']['items']"
NextSceneItems == "next_scene['player_state']['items']"

INITIAL_PLAYER_STATE ==
    [ health |-> 100, max_health |-> 100, gold |-> 50, items |-> InitialItems,
      level |-> 1, experience |-> 0 ]

Effect(health, gold, experience) ==
    [health |-> health, gold |-> gold, experience |-> experience]

(* action_effects, in the order of the dict literal *)
action_effects ==
    << <<"fight", Effect(-15, 30, 20)>>,
       <<"attack", Effect(-15, 30, 20)>>,
       <<"sword", Effect(-10, 25, 15)>>,
       <<"weapon", Effect(-12, 28, 18)>>,
       <<"speak", Effect(5, 10, 15)>>,
       <<"peaceful", Effect(5, 10, 15)>>,
       <<"diplomacy", Effect(5, 15, 20)>>,
       <<"search", Effect(0, 20, 10)>>,
       <<"investigate", Effect(-5, 15, 25)>>,
       <<"examine", Effect(0, 5, 15)>>,
       <<"treasure", Effect(0, 50, 15)>>,
       <<"take", Effect(0, 35, 10)>>,
       <<"claim", Effect(0, 45, 12)>>,
       <<"spell", Effect(10, 5, 30)>>,
       <<"magic", Effect(10, 5, 30)>>,
       <<"rest", Effect(25, 0, 5)>>,
       <<"drink", Effect(30, -5, 5)>>,
       <<"continue", Effect(-8, 12, 8)>>,
       <<"proceed", Effect(-5, 8, 12)>> >>

(* the keywords k with  k in choice_text.lower()  for the choice texts of the
   scenes of the model *)
KeywordsIn(choice_text) ==
    CASE choice_text = "Cast a spell" -> {"spell"}
      [] choice_text = "Draw your sword" -> {"sword"}
      [] choice_text = "Speak peacefully" -> {"speak", "peaceful"}
      [] choice_text = "Search for clues" -> {"search"}
      [] choice_text = "Take the treasure" -> {"treasure", "take"}
      [] choice_text = "Proceed cautiously" -> {"proceed"}
      [] choice_text = "Fight the troll" -> {"fight"}
      [] choice_text = "Continue onward" -> {"continue"}
      [] choice_text = "Rest by the fire" -> {"rest"}
      [] choice_text = "Investigate the attack" -> {"attack", "investigate"}
      [] choice_text = "Drink the potion" -> {"drink"}
      [] OTHER -> {}

(* for keyword, modifier in action_effects.items(): the first match, break *)
MatchingEffect(choice_text) ==
    LET hits == {i \in DOMAIN action_effects :
                    action_effects[i][1] \in KeywordsIn(choice_text)}
    IN  IF hits = {}
          THEN Effect(0, 0, 0)
          ELSE action_effects[CHOOSE i \in hits : \A j \in hits : i <= j][2]

base_effect(scene_hash) ==
    [ health |-> -2 + (scene_hash % 5),
      gold |-> 5 + (scene_hash % 10),
      experience |-> 3 + (scene_hash % 8) ]

get_level_items(level, theme) ==
    CASE theme = "fantasy" /\ level = 2 -> <<"health_potion">>
      [] theme = "fantasy" /\ level = 3 -> <<"magic_ring">>
      [] theme = "fantasy" /\ level = 4 -> <<"steel_sword">>
      [] theme = "fantasy" /\ level = 5 -> <<"chain_armor", "ancient_tome">>
      [] theme = "sci_fi" /\ level = 2 -> <<"energy_core">>
      [] theme = "sci_fi" /\ level = 3 -> <<"cyber_implant">>
      [] theme = "sci_fi" /\ level = 4 -> <<"plasma_rifle">>
      [] theme = "sci_fi" /\ level = 5 -> <<"quantum_computer">>
      [] theme = "mystery" /\ level = 2 -> <<"detective_badge">>
      [] theme = "mystery" /\ level = 3 -> <<"cryptic_note">>
      [] theme = "mystery" /\ level = 4 -> <<"antique_key">>
      [] theme = "mystery" /\ level = 5 -> <<"hidden_diary">>
      [] OTHER -> << >>

Min_Unclamped(a, b) == b

Min(a, b) == IF a <= b THEN a ELSE b

RECURSIVE AppendMissing(_, _)
(* for item in new_items: if item not in items: items.append(item) *)
AppendMissing(items, new_items) ==
    IF new_items = << >>
      THEN items
      ELSE LET item == Head(new_items)
           IN  AppendMissing(IF \E i \in DOMAIN items : items[i] = item
                                THEN items ELSE Append(items, item),
                             Tail(new_items))

(* The result is the returned dict together with the heap the call leaves *)
generate_player_state_for_scene(scene_hash, theme, previous_scene, choice_made, heap) ==
    IF previous_scene = NoScene
      THEN [player_state |-> INITIAL_PLAYER_STATE, heap |-> heap]
      ELSE
        LET prev_state ==
                IF previous_scene.player_state = NoPlayerState
                  THEN INITIAL_PLAYER_STATE
                  ELSE previous_scene.player_state
            choice_text ==
                IF choice_made \in DOMAIN previous_scene.choices
                  THEN previous_scene.choices[choice_made].text
                  ELSE ""
            effect == MatchingEffect(choice_text)
            base == base_effect(scene_hash)
            health == Max(0, Min(prev_state.max_health,
                                 prev_state.health + effect.health + base.health))
            gold == Max(0, prev_state.gold + effect.gold + base.gold)
            experience == prev_state.experience + effect.experience + base.experience
            exp_needed == prev_state.level * 100
        IN  IF experience >= exp_needed
              THEN [ player_state |->
                        [ health |-> prev_state.max_health + 20,
                          max_health |-> prev_state.max_health + 20,
                          gold |-> gold,
                          items |-> prev_state.items,
                          level |-> prev_state.level + 1,
                          experience |-> experience ],
                     heap |->
                        [heap EXCEPT ![prev_state.items] =
                            AppendMissing(@, get_level_items(prev_state.level + 1, theme))] ]
              ELSE [ player_state |->
                        [ health |-> health,
                          max_health |-> prev_state.max_health,
                          gold |-> gold,
                          items |-> prev_state.items,
                          level |-> prev_state.level,
                          experience |-> experience ],
                     heap |-> heap ]

-----------------------------------------------------------------------------
(* lambda_function.py: scenes, the three DynamoDB tables, process_choice.
   The title, description, summary, colour and timestamps of a scene and of
   the game record are texts no statement of the code reads back *)

INITIAL_SCENE ==
    [ scene_id |-> "start",
      choices |-> [ a |-> [text |-> "Begin a Fantasy Quest", leads_to |-> "fantasy_start"],
                    b |-> [text |-> "Start Sci-Fi Adventure", leads_to |-> "scifi_start"] ],
      theme |-> "fantasy",
      player_state |-> INITIAL_PLAYER_STATE ]

(* put_item stores the contents of the lists; get_item builds new list objects *)
Serialize(scene_, heap) ==
    IF scene_.player_state = NoPlayerState
      THEN scene_
      ELSE [scene_ EXCEPT !.player_state.items = heap[scene_.player_state.items]]

Deserialize(item, ref) ==
    IF item.player_state = NoPlayerState
      THEN item
      ELSE [item EXCEPT !.player_state.items = ref]

HeapAfterGet(item, ref, heap) ==
    IF item.player_state = NoPlayerState
      THEN heap
      ELSE [heap EXCEPT ![ref] = item.player_state.items]

(* len(scene_id) of the scene ids the code builds: the two ids INITIAL_SCENE
   leads to, and  fantasy_<two digits><a|b>_<four digits>  *)
len(scene_id) ==
    CASE scene_id = "start" -> 5
      [] scene_id = "fantasy_start" -> 13
      [] scene_id = "scifi_start" -> 11
      [] OTHER -> 16

(* f'{theme}_{scene_num}a_{random.randint(1000, 9999)}' *)
NextSceneId(theme, scene_id, letter, suffix) ==
    theme \o "_" \o ToString(len(scene_id)) \o letter \o "_" \o ToString(suffix)

DefaultGameState ==
    [ game_id |-> "global", current_scene |-> "start", total_players |-> 0,
      choices_made |-> 0 ]

(* The storage calls, each of which can raise *)
StorageCalls ==
    { "route:game_state_table.get_item",
      "route:game_state_table.put_item(initial_state)",
      "scene:story_scenes_table.get_item",
      "scene:story_scenes_table.put_item",
      "next_scene:story_scenes_table.get_item",
      "next_scene:story_scenes_table.put_item",
      "update_game_state:game_state_table.get_item",
      "update_game_state:game_state_table.put_item(initial_state)",
      "update_game_state:game_state_table.put_item(current_state)",
      "update_stats:stats_table.update_item(scene_visits)",
      "update_stats:stats_table.update_item(total_choices)" }

(* the returned record and the table the call leaves *)
get_current_game_state(table, faults, caller) ==
    IF (caller \o ":game_state_table.get_item") \in faults
      THEN [item |-> DefaultGameState, table |-> table]
      ELSE IF table # NoItem
        THEN [item |-> table, table |-> table]
        ELSE IF (caller \o ":game_state_table.put_item(initial_state)") \in faults
          THEN [item |-> DefaultGameState, table |-> table]
          ELSE [item |-> DefaultGameState, table |-> DefaultGameState]

update_stats(scene_id, stats, faults) ==
    IF "update_stats:stats_table.update_item(scene_visits)" \in faults
      THEN stats
      ELSE LET visited ==
                  [stats EXCEPT !.scene_counts =
                      (scene_id :> (IF scene_id \in DOMAIN @ THEN @[scene_id] ELSE 0) + 1) @@ @]
           IN  IF "update_stats:stats_table.update_item(total_choices)" \in faults
                 THEN visited
                 ELSE [visited EXCEPT !.choice_count = @ + 1]

update_game_state(new_scene, table, stats, faults) ==
    LET read == get_current_game_state(table, faults, "update_game_state")
        current_state == [read.item EXCEPT !.current_scene = new_scene,
                                           !.choices_made = @ + 1]
    IN  IF "update_game_state:game_state_table.put_item(current_state)" \in faults
          THEN [table |-> read.table, stats |-> stats]
          ELSE [table |-> current_state,
                stats |-> update_stats(new_scene, stats, faults)]

(* the element of a one-element set; an intermediate result bound as
   x \in {e} is computed once, however often the lines after it read it *)
Only(S) == CHOOSE x \in S : TRUE

(* rnd: what Gemini and the random module give one generation *)
new_scene_dict(scene_id, theme, player_state, rnd) ==
    [ scene_id |-> scene_id,
      choices |->
         [ a |-> [text |-> rnd.texts[1],
                  leads_to |-> NextSceneId(theme, scene_id, "a", rnd.suffixes[1])],
           b |-> [text |-> rnd.texts[2],
                  leads_to |-> NextSceneId(theme, scene_id,
                                           IF rnd.gemini THEN "a" ELSE "b",
                                           rnd.suffixes[2])] ],
      theme |-> theme,
      player_state |-> player_state ]

generate_new_scene(scene_id, theme, previous_scene, choice_made, scenes, heap, rnd, put_raises) ==
    Only({ [ scene |-> new_scene_dict(scene_id, theme, made.player_state, rnd),
             scenes |-> IF put_raises
                          THEN scenes
                          ELSE (scene_id :> Serialize(new_scene_dict(scene_id, theme,
                                                                     made.player_state, rnd),
                                                      made.heap)) @@ scenes,
             heap |-> made.heap,
             generated |-> TRUE ] :
           made \in {generate_player_state_for_scene(rnd.scene_hash, theme,
                                                     previous_scene, choice_made, heap)} })

get_or_generate_scene(scene_id, theme, previous_scene, choice_made, scenes, heap, rnd, faults, who, ref) ==
    IF scene_id = "start"
      THEN [scene |-> INITIAL_SCENE, scenes |-> scenes, heap |-> heap, generated |-> FALSE]
      ELSE IF (who \o ":story_scenes_table.get_item") \notin faults
              /\ scene_id \in DOMAIN scenes
        THEN [ scene |-> Deserialize(scenes[scene_id], ref),
               scenes |-> scenes,
               heap |-> HeapAfterGet(scenes[scene_id], ref, heap),
               generated |-> FALSE ]
        ELSE generate_new_scene(scene_id, theme, previous_scene, choice_made, scenes,
                                heap, rnd,
                                (who \o ":story_scenes_table.put_item") \in faults)

(* next_scene.get('player_state', {}).get('health', 100) <= 0 *)
player_died_BelowZero(next_scene) ==
    (IF next_scene.player_state = NoPlayerState
       THEN 100 ELSE next_scene.player_state.health) < 0

player_died(next_scene) ==
    (IF next_scene.player_state = NoPlayerState
       THEN 100 ELSE next_scene.player_state.health) <= 0

(* what process_choice returns when it makes no update: the choice is not
   offered (raised is None), or scene['choices'][choice]['leads_to'] raised *)
process_choice_unmoved(choice, current_state, stats, got, offered, raised, faults) ==
    [ table |-> current_state.table,
      scenes |-> got.scenes,
      stats |-> stats,
      heap |-> got.heap,
      raised |-> raised,
      seen |-> [ choice |-> choice,
                 offered |-> offered,
                 scene_before |-> Serialize(got.scene, got.heap),
                 scene_after |-> Serialize(got.scene, got.heap),
                 generated |-> FALSE,
                 next_scene |-> NoScene,
                 new_scene |-> None,
                 put_raised |-> FALSE ] ]

(* the death check and update_game_state, once next_scene is there *)
process_choice_update(choice, current_state, stats, got, next_scene_id, nxt, faults) ==
    Only({ [ table |-> updated.table,
             scenes |-> nxt.scenes,
             stats |-> updated.stats,
             heap |-> nxt.heap,
             raised |-> None,
             seen |-> [ choice |-> choice,
                        offered |-> TRUE,
                        scene_before |-> Serialize(got.scene, got.heap),
                        scene_after |-> Serialize(got.scene, nxt.heap),
                        generated |-> nxt.generated,
                        next_scene |-> Serialize(nxt.scene, nxt.heap),
                        new_scene |-> new_scene,
                        put_raised |->
                           "update_game_state:game_state_table.put_item(current_state)"
                              \in faults ] ] :
           new_scene \in {IF player_died(nxt.scene) THEN "start" ELSE next_scene_id},
           updated \in {update_game_state(
                           IF player_died(nxt.scene) THEN "start" ELSE next_scene_id,
                           current_state.table, stats, faults)} })

(* the lines of process_choice after scene = get_or_generate_scene(...) *)
process_choice_scene(choice, current_state, stats, got, rnd_next, faults) ==
    IF choice \notin DOMAIN got.scene.choices
      THEN process_choice_unmoved(choice, current_state, stats, got, FALSE, None, faults)
      ELSE IF "leads_to" \notin DOMAIN got.scene.choices[choice]
        THEN process_choice_unmoved(choice, current_state, stats, got, TRUE, KeyError,
                                    faults)
        ELSE Only({ process_choice_update(choice, current_state, stats, got,
                                          got.scene.choices[choice].leads_to, nxt, faults) :
                    nxt \in {get_or_generate_scene(got.scene.choices[choice].leads_to,
                                                   got.scene.theme, got.scene, choice,
                                                   got.scenes, got.heap, rnd_next, faults,
                                                   "next_scene", NextSceneItems)} })

(* the lines of process_choice after current_state = get_current_game_state() *)
process_choice_state(choice, current_state, scenes, stats, items0, rnd_scene, rnd_next, faults) ==
    Only({ process_choice_scene(choice, current_state, stats, got, rnd_next, faults) :
           got \in {get_or_generate_scene(
                       current_state.item.current_scene, "fantasy", NoScene, None, scenes,
                       [ref \in {InitialItems, SceneItems, NextSceneItems} |->
                           IF ref = InitialItems THEN items0 ELSE << >>],
                       rnd_scene, faults, "scene", SceneItems)} })

(* process_choice: the tables and the heap it leaves, what it saw, and the
   exception it raised ( scene['choices'][choice]['leads_to'] ) or None *)
process_choice(choice, table, scenes, stats, items0, rnd_scene, rnd_next, faults) ==
    Only({ process_choice_state(choice, current_state, scenes, stats, items0,
                                rnd_scene, rnd_next, faults) :
           current_state \in {get_current_game_state(table, faults, "route")} })

-----------------------------------------------------------------------------
(* Requests on the deployed function, one after the other *)

MaxRequests == 3
MaxFaults == 1
MaxChain == 5

ChoiceKeys == {"a", "b", "c"}

SceneHashes == {0, 47}
SuffixPairs == { <<1000, 9999>> }
GeminiTexts == { <<"Fight the troll", "Rest by the fire">> }
ProceduralTexts == { <<"Cast a spell", "Draw your sword">> }

(* what Gemini (when it answers) or random.sample give, random.randint twice,
   and hash(scene_id) % 100, which differs from process to process *)
Draws ==
    { [gemini |-> TRUE, texts |-> tx, suffixes |-> sf, scene_hash |-> h] :
         tx \in GeminiTexts, sf \in SuffixPairs, h \in SceneHashes }
    \cup
    { [gemini |-> FALSE, texts |-> tx, suffixes |-> sf, scene_hash |-> h] :
         tx \in ProceduralTexts, sf \in SuffixPairs, h \in SceneHashes }

(* the runs with storage faults keep one value of hash(scene_id) % 100; the
   chains of scenes vary it *)
StoryDraws == { rnd \in Draws : rnd.scene_hash = 47 }

NoDraw == [gemini |-> FALSE, texts |-> <<"", "">>, suffixes |-> <<1000, 1000>>,
           scene_hash |-> 0]

FaultSets(n) ==
    IF n = 0
      THEN { {} }
      ELSE { F \in SUBSET StorageCalls : Cardinality(F) <= n }

(* a scene another deployment left in the table: the player is dead in it *)
StoredDeadScene ==
    [ scene_id |-> "fantasy_start",
      choices |-> [ a |-> [text |-> "Fight the troll", leads_to |-> "fantasy_13a_1000"],
                    b |-> [text |-> "Rest by the fire", leads_to |-> "fantasy_13a_9999"] ],
      theme |-> "fantasy",
      player_state |-> [ health |-> 0, max_health |-> 100, gold |-> 80,
                         items |-> <<"basic_sword", "leather_armor">>,
                         level |-> 1, experience |-> 60 ] ]

InitStory ==
    /\ state = DefaultState
    /\ ManagerIdle
    /\ game_state_table = NoItem
    /\ story_scenes_table \in { NoScenes, ("fantasy_start" :> StoredDeadScene) }
    /\ stats_table = [scene_counts |-> NoCounts, choice_count |-> 0]
    /\ initial_items = <<"basic_sword", "leather_armor">>
    /\ requests_left = MaxRequests
    /\ faults_left = MaxFaults
    /\ last_request = NoRequest
    /\ response = NoResponse
    /\ in_flight = NoRequests

Request(draws) ==
    /\ requests_left > 0
    /\ \E choice \in ChoiceKeys, faults \in FaultSets(faults_left) :
       LET current_state ==
               get_current_game_state(game_state_table, faults, "route")
           scene_id == current_state.item.current_scene
           scene_stored ==
               \/ scene_id = "start"
               \/ /\ "scene:story_scenes_table.get_item" \notin faults
                  /\ scene_id \in DOMAIN story_scenes_table
       IN  \E rnd_scene \in (IF scene_stored THEN {NoDraw} ELSE draws),
              rnd_next \in draws :
             \E done \in {process_choice(choice, game_state_table, story_scenes_table,
                                         stats_table, initial_items,
                                         rnd_scene, rnd_next, faults)} :
                 /\ game_state_table' = done.table
                 /\ story_scenes_table' = done.scenes
                 /\ stats_table' = done.stats
                 /\ initial_items' = done.heap[InitialItems]
                 /\ last_request' = done.seen
                 /\ faults_left' = faults_left - Cardinality(faults)
    /\ requests_left' = requests_left - 1
    /\ UNCHANGED <<state, crisis, resources, prompt, args, consequence_context,
                   applied, action_consequences, random_draws, deathVars,
                   response, in_flight>>

ProcessChoice == Request(StoryDraws)

NextStory ==
    \/ ProcessChoice

SpecStory == InitStory /\ [][NextStory]_vars

(* a chain of scenes: the same requests without storage faults on an empty table *)
InitChain ==
    /\ state = DefaultState
    /\ ManagerIdle
    /\ game_state_table = NoItem
    /\ story_scenes_table = NoScenes
    /\ stats_table = [scene_counts |-> NoCounts, choice_count |-> 0]
    /\ initial_items = <<"basic_sword", "leather_armor">>
    /\ requests_left = MaxChain
    /\ faults_left = 0
    /\ last_request = NoRequest
    /\ response = NoResponse
    /\ in_flight = NoRequests

ChainChoice == Request(Draws)

NextChain ==
    \/ ChainChoice

SpecChain == InitChain /\ [][NextChain]_vars

-----------------------------------------------------------------------------
(* lambda_handler: the routes, and the response it returns *)

Paths ==
    { "/scene.png", "/choice/a", "/choice/b", "/option/a.png", "/option/b.png",
      "/stats.png", "/history.png", "/" }

(* path.endswith(suffix), for the paths above and the suffixes the handler tests *)
EndsWith(path, suffix) ==
    suffix \in
      (CASE path = "/scene.png" -> {"/scene.png"}
         [] path = "/choice/a" -> {"/choice/a", "/a"}
         [] path = "/choice/b" -> {"/choice/b"}
         [] path = "/option/a.png" -> {"/option/a.png"}
         [] path = "/option/b.png" -> {"/option/b.png"}
         [] path = "/stats.png" -> {"/stats.png"}
         [] path = "/history.png" -> {"/history.png"}
         [] OTHER -> {})

NewHeap(items0) ==
    [ref \in {InitialItems, SceneItems, NextSceneItems} |->
        IF ref = InitialItems THEN items0 ELSE << >>]

Exception == "Exception"

(* generate_scene_image and generate_choice_image: the reads they start with,
   then the rendering (jinja2, wkhtmltoimage, PIL), which returns the image
   or raises *)
read_current_scene(table, scenes, items0, rnd_scene, faults) ==
    Only({ [ table |-> current_state.table,
             got |-> get_or_generate_scene(current_state.item.current_scene, "fantasy",
                                           NoScene, None, scenes, NewHeap(items0),
                                           rnd_scene, faults, "scene", SceneItems) ] :
           current_state \in {get_current_game_state(table, faults, "route")} })

generate_scene_image(table, scenes, stats, items0, rnd_scene, faults, renders) ==
    Only({ [ table |-> read.table, scenes |-> read.got.scenes, stats |-> stats,
             heap |-> read.got.heap, seen |-> NoRequest,
             raised |-> IF renders THEN None ELSE Exception,
             image_data |-> "scene image" ] :
           read \in {read_current_scene(table, scenes, items0, rnd_scene, faults)} })

generate_choice_image(choice_type, table, scenes, stats, items0, rnd_scene, faults, renders) ==
    Only({ [ table |-> read.table, scenes |-> read.got.scenes, stats |-> stats,
             heap |-> read.got.heap, seen |-> NoRequest,
             raised |-> IF renders THEN None ELSE Exception,
             image_data |-> "option " \o choice_type \o " image" ] :
           read \in {read_current_scene(table, scenes, items0, rnd_scene, faults)} })

generate_stats_image(table, scenes, stats, items0, faults, renders) ==
    LET current_state == get_current_game_state(table, faults, "route")
    IN  [ table |-> current_state.table, scenes |-> scenes, stats |-> stats,
          heap |-> NewHeap(items0), seen |-> NoRequest,
          raised |-> IF renders THEN None ELSE Exception,
          image_data |-> "stats image" ]

generate_history_image(table, scenes, stats, items0, renders) ==
    [ table |-> table, scenes |-> scenes, stats |-> stats,
      heap |-> NewHeap(items0), seen |-> NoRequest,
      raised |-> IF renders THEN None ELSE Exception,
      image_data |-> "history image" ]

generate_error_image == "error image"

b64encode(image_data) == "base64(" \o image_data \o ")"

headers ==
    [ Content_Type |-> "image/png",
      Cache_Control |-> "no-cache, no-store, must-revalidate",
      Pragma |-> "no-cache",
      Expires |-> "0",
      Access_Control_Allow_Origin |-> "*" ]

RedirectResponse ==
    [ statusCode |-> 302,
      headers |->
        [ Location |-> "https://github.com/lhnealreilly/InteractiveStoryREADME#current-scene",
          Cache_Control |-> "no-cache, no-store, must-revalidate" ] ]

ImageResponse(image_data) ==
    [ statusCode |-> 200, headers |-> headers, body |-> b64encode(image_data),
      isBase64Encoded |-> TRUE ]

ErrorResponse_Status500 ==
    [ statusCode |-> 500, headers |-> headers,
      body |-> b64encode(generate_error_image), isBase64Encoded |-> TRUE ]

ErrorResponse ==
    [ statusCode |-> 200, headers |-> headers,
      body |-> b64encode(generate_error_image), isBase64Encoded |-> TRUE ]

IsChoicePath(path) == EndsWith(path, "/choice/a") \/ EndsWith(path, "/choice/b")

(* the response (the except clause answers for every exception a route
   handler raises) and the route handler's outcome *)
route(path, table, scenes, stats, items0, rnd_scene, rnd_next, faults, renders) ==
    IF EndsWith(path, "/scene.png")
      THEN generate_scene_image(table, scenes, stats, items0, rnd_scene, faults, renders)
    ELSE IF IsChoicePath(path)
      THEN process_choice(IF EndsWith(path, "/a") THEN "a" ELSE "b",
                          table, scenes, stats, items0, rnd_scene, rnd_next, faults)
    ELSE IF EndsWith(path, "/option/a.png")
      THEN generate_choice_image("a", table, scenes, stats, items0, rnd_scene,
                                 faults, renders)
    ELSE IF EndsWith(path, "/option/b.png")
      THEN generate_choice_image("b", table, scenes, stats, items0, rnd_scene,
                                 faults, renders)
    ELSE IF EndsWith(path, "/stats.png")
      THEN generate_stats_image(table, scenes, stats, items0, faults, renders)
    ELSE IF EndsWith(path, "/history.png")
      THEN generate_history_image(table, scenes, stats, items0, renders)
    ELSE generate_scene_image(table, scenes, stats, items0, rnd_scene, faults, renders)

lambda_handler(path, table, scenes, stats, items0, rnd_scene, rnd_next, faults, renders) ==
    Only({ [ handled |-> handled,
             response |->
                IF handled.raised # None
                  THEN ErrorResponse
                  ELSE IF IsChoicePath(path)
                    THEN RedirectResponse
                    ELSE ImageResponse(handled.image_data) ] :
           handled \in {route(path, table, scenes, stats, items0, rnd_scene, rnd_next,
                              faults, renders)} })

(* a scene in the table whose choice b has no 'leads_to' *)
StoredBrokenScene ==
    [ scene_id |-> "fantasy_start",
      choices |-> [ a |-> [text |-> "Fight the troll", leads_to |-> "fantasy_13a_1000"],
                    b |-> [text |-> "Rest by the fire"] ],
      theme |-> "fantasy",
      player_state |-> [ health |-> 98, max_health |-> 100, gold |-> 55,
                         items |-> <<"basic_sword", "leather_armor">>,
                         level |-> 1, experience |-> 3 ] ]

InitHandler ==
    /\ state = DefaultState
    /\ ManagerIdle
    /\ game_state_table = NoItem
    /\ story_scenes_table \in { NoScenes, ("fantasy_start" :> StoredBrokenScene) }
    /\ stats_table = [scene_counts |-> NoCounts, choice_count |-> 0]
    /\ initial_items = <<"basic_sword", "leather_armor">>
    /\ requests_left = MaxRequests
    /\ faults_left = MaxFaults
    /\ last_request = NoRequest
    /\ response = NoResponse
    /\ in_flight = NoRequests

LambdaHandler ==
    /\ requests_left > 0
    /\ \E path \in Paths, faults \in FaultSets(faults_left) :
       LET current_state ==
               get_current_game_state(game_state_table, faults, "route")
           scene_id == current_state.item.current_scene
           scene_stored ==
               \/ scene_id = "start"
               \/ /\ "scene:story_scenes_table.get_item" \notin faults
                  /\ scene_id \in DOMAIN story_scenes_table
       IN  \E rnd_scene \in (IF scene_stored THEN {NoDraw} ELSE StoryDraws),
              rnd_next \in (IF IsChoicePath(path) THEN StoryDraws ELSE {NoDraw}),
              renders \in (IF IsChoicePath(path) THEN {TRUE} ELSE BOOLEAN) :
             \E done \in {lambda_handler(path, game_state_table, story_scenes_table,
                                         stats_table, initial_items,
                                         rnd_scene, rnd_next, faults, renders)} :
                 /\ response' = done.response
                 /\ game_state_table' = done.handled.table
                 /\ story_scenes_table' = done.handled.scenes
                 /\ stats_table' = done.handled.stats
                 /\ initial_items' = done.handled.heap[InitialItems]
                 /\ last_request' =
                       [ path |-> path,
                         raised |-> done.handled.raised,
                         process_choice |-> done.handled.seen ]
                 /\ faults_left' = faults_left - Cardinality(faults)
    /\ requests_left' = requests_left - 1
    /\ UNCHANGED <<state, crisis, resources, prompt, args, consequence_context,
                   applied, action_consequences, random_draws, deathVars,
                   in_flight>>

NextHandler ==
    \/ LambdaHandler

SpecHandler == InitHandler /\ [][NextHandler]_vars

-----------------------------------------------------------------------------
(* Concurrent choice requests on the one global record: each storage call of
   process_choice and of update_game_state is a step of its request *)

MaxConcurrent == 2

InitRace ==
    /\ state = DefaultState
    /\ ManagerIdle
    /\ game_state_table = NoItem
    /\ story_scenes_table = NoScenes
    /\ stats_table = [scene_counts |-> NoCounts, choice_count |-> 0]
    /\ initial_items = <<"basic_sword", "leather_armor">>
    /\ requests_left = 0
    /\ faults_left = 0
    /\ last_request = NoRequest
    /\ response = NoResponse
    /\ in_flight = [r \in 1..MaxConcurrent |->
                      [ pc |-> "process_choice", choice |-> None,
                        current_scene_id |-> None, new_scene |-> None,
                        current_state |-> NoItem, reached_update |-> FALSE ]]

RaceUnchanged ==
    UNCHANGED <<state, crisis, resources, prompt, args, consequence_context,
                applied, action_consequences, random_draws, deathVars,
                initial_items, requests_left, faults_left, last_request, response>>

(* process_choice: current_state = get_current_game_state() *)
ProcessChoiceReadState(r) ==
    /\ in_flight[r].pc = "process_choice"
    /\ \E choice \in ChoiceKeys :
          LET current_state == get_current_game_state(game_state_table, {}, "route")
          IN  /\ game_state_table' = current_state.table
              /\ in_flight' = [in_flight EXCEPT
                                 ![r].pc = "get_or_generate_scene",
                                 ![r].choice = choice,
                                 ![r].current_scene_id = current_state.item.current_scene]
    /\ UNCHANGED <<story_scenes_table, stats_table>>
    /\ RaceUnchanged

(* process_choice: the two get_or_generate_scene calls and the death check *)
ProcessChoiceScenes(r) ==
    /\ in_flight[r].pc = "get_or_generate_scene"
    /\ \E rnd_scene \in (IF \/ in_flight[r].current_scene_id = "start"
                            \/ in_flight[r].current_scene_id \in DOMAIN story_scenes_table
                           THEN {NoDraw} ELSE Draws),
          rnd_next \in Draws :
          LET got == get_or_generate_scene(in_flight[r].current_scene_id, "fantasy",
                                           NoScene, None, story_scenes_table,
                                           NewHeap(initial_items), rnd_scene, {},
                                           "scene", SceneItems)
              scene_ == got.scene
              choice == in_flight[r].choice
          IN  IF choice \notin DOMAIN scene_.choices
                THEN /\ story_scenes_table' = got.scenes
                     /\ in_flight' = [in_flight EXCEPT ![r].pc = "done"]
                ELSE LET next_scene_id == scene_.choices[choice].leads_to
                         nxt == get_or_generate_scene(next_scene_id, scene_.theme,
                                                      scene_, choice, got.scenes,
                                                      got.heap, rnd_next, {},
                                                      "next_scene", NextSceneItems)
                     IN  /\ story_scenes_table' = nxt.scenes
                         /\ in_flight' = [in_flight EXCEPT
                               ![r].pc = "update_game_state",
                               ![r].new_scene = IF player_died(nxt.scene)
                                                  THEN "start" ELSE next_scene_id]
    /\ UNCHANGED <<game_state_table, stats_table>>
    /\ RaceUnchanged

(* update_game_state: current_state = get_current_game_state() *)
UpdateGameStateRead(r) ==
    /\ in_flight[r].pc = "update_game_state"
    /\ LET current_state ==
               get_current_game_state(game_state_table, {}, "update_game_state")
       IN  /\ game_state_table' = current_state.table
           /\ in_flight' = [in_flight EXCEPT
                              ![r].pc = "put_item",
                              ![r].current_state = current_state.item,
                              ![r].reached_update = TRUE]
    /\ UNCHANGED <<story_scenes_table, stats_table>>
    /\ RaceUnchanged

(* update_game_state: the assignments to current_state, put_item, update_stats *)
UpdateGameStatePut(r) ==
    /\ in_flight[r].pc = "put_item"
    /\ game_state_table' =
          [in_flight[r].current_state EXCEPT
              !.current_scene = in_flight[r].new_scene,
              !.choices_made = @ + 1]
    /\ stats_table' = update_stats(in_flight[r].new_scene, stats_table, {})
    /\ in_flight' = [in_flight EXCEPT ![r].pc = "done"]
    /\ UNCHANGED story_scenes_table
    /\ RaceUnchanged

NextRace ==
    \/ \E r \in DOMAIN in_flight : ProcessChoiceReadState(r)
    \/ \E r \in DOMAIN in_flight : ProcessChoiceScenes(r)
    \/ \E r \in DOMAIN in_flight : UpdateGameStateRead(r)
    \/ \E r \in DOMAIN in_flight : UpdateGameStatePut(r)

SpecRace == InitRace /\ [][NextRace]_vars

-----------------------------------------------------------------------------
(* The rules of the classifier as the specification states them *)

RuleCritical(s) ==
    4 * s.health <= s.max_health \/ s.food = 0 \/ Len(s.curses) >= 3

RuleDesperate(s) ==
    (5 * s.health <= 2 * s.max_health /\ s.food <= 1) \/ s.corruption >= 70

RuleStruggling(s) ==
    2 * s.health <= s.max_health \/ s.food <= 1 \/ s.gold <= 5 \/ s.corruption >= 50

RuleStable(s) ==
    10 * s.health >= 7 * s.max_health /\ s.food >= 2 /\ s.gold >= 20

(* the severity order thriving < stable < struggling < desperate < critical *)
Severity(level) ==
    CASE level = "thriving" -> 0
      [] level = "stable" -> 1
      [] level = "struggling" -> 2
      [] level = "desperate" -> 3
      [] level = "critical" -> 4

Classified == crisis # NotCalled
Labelled == resources # NoStatus
Composed == prompt # NoPrompt

(* C1: a valid state is classified CRITICAL exactly when health/max_health
   <= 0.25 or food == 0 or it has 3 or more curses, whatever the other rules
   say. *)
C1_CriticalIff ==
    (Classified /\ Valid(state)) =>
        (crisis = "critical" <=> RuleCritical(state))

(* classified CRITICAL by the curses alone, with the DESPERATE rule met too *)
C1_Witness ==
    /\ crisis = "critical"
    /\ 4 * state.health > state.max_health
    /\ state.food > 0
    /\ Len(state.curses) >= 3
    /\ RuleDesperate(state)

(* C2: a valid state that does not meet the CRITICAL rule is classified
   DESPERATE exactly when (health/max_health <= 0.40 and food <= 1) or
   corruption >= 70. *)
C2_DesperateIff ==
    (Classified /\ Valid(state) /\ ~RuleCritical(state)) =>
        (crisis = "desperate" <=> RuleDesperate(state))

(* classified DESPERATE by low health and little food, corruption below 70 *)
C2_Witness ==
    /\ crisis = "desperate"
    /\ state.corruption < 70
    /\ 5 * state.health <= 2 * state.max_health
    /\ state.food = 1

(* C3: a valid state that meets neither the CRITICAL nor the DESPERATE rule is
   classified STRUGGLING exactly when health/max_health <= 0.50 or food <= 1
   or gold <= 5 or corruption >= 50. *)
C3_StrugglingIff ==
    (Classified /\ Valid(state) /\ ~RuleCritical(state) /\ ~RuleDesperate(state)) =>
        (crisis = "struggling" <=> RuleStruggling(state))

(* classified STRUGGLING by gold == 5 alone *)
C3_Witness ==
    /\ crisis = "struggling"
    /\ state.gold = 5
    /\ 2 * state.health > state.max_health
    /\ state.food >= 2
    /\ state.corruption < 50

(* C4: a valid state that meets none of the CRITICAL, DESPERATE and STRUGGLING
   rules is classified STABLE when health/max_health >= 0.70 and food >= 2 and
   gold >= 20, and THRIVING in every remaining case. *)
C4_StableElseThriving ==
    (/\ Classified
     /\ Valid(state)
     /\ ~RuleCritical(state)
     /\ ~RuleDesperate(state)
     /\ ~RuleStruggling(state)) =>
        /\ RuleStable(state) => crisis = "stable"
        /\ ~RuleStable(state) => crisis = "thriving"

(* the fallback: THRIVING with gold just below the STABLE threshold *)
C4_Witness ==
    /\ crisis = "thriving"
    /\ state.gold = 19
    /\ 10 * state.health >= 7 * state.max_health

(* C5: with food >= 2, gold >= 20, corruption < 50 and fewer than 3 curses, a
   state with lower health and otherwise the same fields is never classified
   less severe than the state itself. *)
C5_MonotonicInHealth ==
    (/\ Classified
     /\ Valid(state)
     /\ state.food >= 2
     /\ state.gold >= 20
     /\ state.corruption < 50
     /\ Len(state.curses) < 3) =>
        \A h \in 0..state.health :
            Severity(get_crisis_level([state EXCEPT !.health = h])) >= Severity(crisis)

(* C6: the __main__ scenario PlayerState(health=150, max_health=150, gold=200,
   food=10, level=5) is classified THRIVING and its directive carries the
   POWER MODE block. *)
C6_ScenarioThrivingPowerMode ==
    (state = ScenarioThriving /\ Classified /\ Composed) =>
        /\ crisis = "thriving"
        /\ \E i \in DOMAIN prompt : prompt[i] = "POWER MODE - Player is thriving:"

(* C7: every valid state with food == 0 is classified CRITICAL. *)
C7_NoFoodIsCritical ==
    (Classified /\ Valid(state) /\ state.food = 0) => crisis = "critical"

(* food == 0 with everything else at its best *)
C7_Witness ==
    /\ crisis = "critical"
    /\ state.food = 0
    /\ state.health = state.max_health
    /\ state.gold >= 20
    /\ state.corruption = 0
    /\ state.curses = << >>

(* C8: for every valid state the classifier returns one of the five
   CrisisLevel values: no error, no None. *)
C8_Exhaustive ==
    (Classified /\ Valid(state)) => crisis \in CrisisLevel

(* the unguarded fallback was taken *)
C8_Witness ==
    /\ crisis = "thriving"
    /\ ~RuleCritical(state)
    /\ ~RuleDesperate(state)
    /\ ~RuleStruggling(state)
    /\ ~RuleStable(state)

(* C9: PlayerState(health=100, max_health=100, food=3, gold=10, corruption=0)
   is classified THRIVING and labelled health GOOD, food FED, gold STRUGGLING,
   corruption PURE. *)
C9_DefaultState ==
    (state = DefaultState /\ Classified /\ Labelled) =>
        /\ crisis = "thriving"
        /\ resources.health = "GOOD - healthy"
        /\ resources.food = "FED - adequate supplies"
        /\ resources.gold = "STRUGGLING - limited purchasing power"
        /\ resources.corruption = "PURE - soul intact"

C9_Witness ==
    state = DefaultState /\ Classified /\ Labelled

(* C10: the status mapping has exactly the keys health, food, gold and
   corruption, and each label follows the threshold table on the absolute
   value of its field. *)
C10_LabelTable ==
    (Labelled /\ Valid(state)) =>
        /\ DOMAIN resources = {"health", "food", "gold", "corruption"}
        /\ resources.health =
              (IF state.health <= 30 THEN "CRITICAL - near death"
               ELSE IF state.health <= 60 THEN "LOW - badly injured"
               ELSE "GOOD - healthy")
        /\ resources.food =
              (IF state.food = 0 THEN "STARVING - immediate danger"
               ELSE IF state.food = 1 THEN "HUNGRY - need food soon"
               ELSE "FED - adequate supplies")
        /\ resources.gold =
              (IF state.gold <= 5 THEN "POOR - cannot afford basic items"
               ELSE IF state.gold <= 20 THEN "STRUGGLING - limited purchasing power"
               ELSE "WEALTHY - can afford most things")
        /\ resources.corruption =
              (IF state.corruption >= 70 THEN "DAMNED - soul nearly lost"
               ELSE IF state.corruption >= 40 THEN "CORRUPTED - moral decay spreading"
               ELSE IF state.corruption >= 20 THEN "TAINTED - darkness creeping in"
               ELSE "PURE - soul intact")

(* labelled at the boundaries health 31 of 150, gold 20, corruption 40 *)
C10_Witness ==
    /\ Labelled
    /\ state.health = 31 /\ state.max_health = 150
    /\ state.gold = 20
    /\ state.corruption = 40
    /\ state.food = 1

(* C11: the label of each dimension depends on that dimension alone: a valid
   state that agrees with the labelled one on health (food, gold, corruption)
   gets the same health (food, gold, corruption) label, whatever its
   max_health, its other three dimensions, its curses and its reputation. *)
AltHealth == { <<0, 1>>, <<150, 150>> }
AltFood == {0, MaxFood}
AltGold == {0, 21}
AltCorruption == {0, 70}
AltExtras == { << << >>, "unknown" >>, << CurseList(MaxCurses), "murderer" >> }

C11_PerDimensionIndependence ==
    (Labelled /\ Valid(state)) =>
        /\ \A m \in { n \in MaxHealthValues : n >= state.health } :
           \A f \in AltFood, g \in AltGold, c \in AltCorruption, x \in AltExtras :
              get_resource_status(
                  PlayerState(state.health, m, g, f, 1, c, x[2], x[1])).health
                      = resources.health
        /\ \A hm \in AltHealth, g \in AltGold, c \in AltCorruption, x \in AltExtras :
              get_resource_status(
                  PlayerState(hm[1], hm[2], g, state.food, 1, c, x[2], x[1])).food
                      = resources.food
        /\ \A hm \in AltHealth, f \in AltFood, c \in AltCorruption, x \in AltExtras :
              get_resource_status(
                  PlayerState(hm[1], hm[2], state.gold, f, 1, c, x[2], x[1])).gold
                      = resources.gold
        /\ \A hm \in AltHealth, f \in AltFood, g \in AltGold, x \in AltExtras :
              get_resource_status(
                  PlayerState(hm[1], hm[2], g, f, 1, state.corruption, x[2], x[1])).corruption
                      = resources.corruption

(* labelled with health 31 of 100: 31 of 150 has another health ratio *)
C11_Witness ==
    /\ Labelled
    /\ state.health = 31 /\ state.max_health = 100
    /\ resources.health = "LOW - badly injured"

-----------------------------------------------------------------------------
(* Reading a directive *)

(* the lines of the directive that equal one of the given lines *)
Occurrences(lines) == { i \in DOMAIN prompt : prompt[i] \in lines }

(* the index of a line that occurs exactly once *)
IndexOf(line) == CHOOSE i \in DOMAIN prompt : prompt[i] = line

OccursOnce(line) == Cardinality(Occurrences({line})) = 1

(* the NPC-behavior table of the specification *)
NpcLine(reputation) ==
    CASE reputation = "hero" ->
            "NPC BEHAVIOR: NPCs trust you, offer help, but expect heroic behavior"
      [] reputation = "murderer" ->
            "NPC BEHAVIOR: NPCs fear you, demand payment upfront, some flee"
      [] reputation = "thief" ->
            "NPC BEHAVIOR: NPCs guard possessions, watch you suspiciously"
      [] reputation = "diplomat" ->
            "NPC BEHAVIOR: NPCs respect you, offer information and fair deals"
      [] reputation = "corrupted" ->
            "NPC BEHAVIOR: NPCs sense darkness, react with fear or disgust"
      [] reputation = "feared" ->
            "NPC BEHAVIOR: NPCs submit to intimidation but hate you"

TableReputations == {"hero", "murderer", "thief", "diplomat", "corrupted", "feared"}

NpcLines == { NpcLine(r) : r \in TableReputations }

(* how many lines lie between the SCENE REQUIREMENTS heading and the RESOURCE
   ECONOMY heading: the crisis block (a blank line, its title, five items) and
   the blank line before RESOURCE ECONOMY make 8; an NPC BEHAVIOR line with the
   blank line before it makes 10 *)
LinesAfterRequirements ==
    IndexOf("RESOURCE ECONOMY:") - IndexOf("SCENE REQUIREMENTS:") - 1

(* C12: with reputation hero, murderer, thief, diplomat, corrupted or feared
   the directive holds exactly one NPC BEHAVIOR line, the table entry of that
   reputation, right before the RESOURCE ECONOMY block; with unknown or
   merchant it holds no NPC BEHAVIOR line and nothing in its place. *)
C12_ReputationLine ==
    Composed =>
        IF state.reputation \in TableReputations
            THEN /\ Occurrences(NpcLines) = {IndexOf("RESOURCE ECONOMY:") - 2}
                 /\ prompt[IndexOf("RESOURCE ECONOMY:") - 2] = NpcLine(state.reputation)
                 /\ LinesAfterRequirements = 10
            ELSE /\ Occurrences(NpcLines) = {}
                 /\ LinesAfterRequirements = 8

(* a directive for a feared player carries the feared entry *)
C12_Witness ==
    /\ Composed
    /\ state.reputation = "feared"
    /\ \E i \in DOMAIN prompt :
          prompt[i] = "NPC BEHAVIOR: NPCs submit to intimidation but hate you"

(* the title of the scene-requirement block of each crisis level *)
ModeTitle(level) ==
    CASE level = "critical" -> "SURVIVAL MODE - Player is in immediate mortal danger:"
      [] level = "desperate" -> "DESPERATION MODE - Player has serious problems:"
      [] level = "struggling" -> "CHALLENGE MODE - Player faces significant obstacles:"
      [] level = "stable" -> "GROWTH MODE - Player is doing well:"
      [] level = "thriving" -> "POWER MODE - Player is thriving:"

ModeTitles == { ModeTitle(level) : level \in CrisisLevel }

(* C13: the directive holds exactly one of the five scene-requirement blocks,
   under the SCENE REQUIREMENTS heading, and it is the block of the crisis
   level get_crisis_level returns for the same state. *)
C13_BlockByCrisisLevel ==
    (Classified /\ Composed) =>
        /\ crisis \in CrisisLevel
        /\ Occurrences(ModeTitles) = {IndexOf("SCENE REQUIREMENTS:") + 2}
        /\ prompt[IndexOf("SCENE REQUIREMENTS:") + 2] = ModeTitle(crisis)

(* a desperate state got the DESPERATION MODE block *)
C13_Witness ==
    /\ Classified /\ Composed
    /\ crisis = "desperate"
    /\ \E i \in DOMAIN prompt :
          prompt[i] = "DESPERATION MODE - Player has serious problems:"

HighRiskLines ==
    << "Choice A: HIGH RISK (20-40 health loss possible) / HIGH REWARD (significant gold/items)",
       "Choice B: SAFE OPTION (costs gold/food) / SURVIVAL FOCUSED (minimal gain but safer)" >>

ModerateRiskLines ==
    << "Choice A: MODERATE RISK (10-20 health loss) / GOOD REWARD (fair gold/experience gain)",
       "Choice B: LOW RISK (minor costs) / MODEST REWARD (small but reliable gain)" >>

(* the two lines of the template the directive holds, after the CHOICE
   CONSEQUENCES heading, its instruction line and a blank line *)
TemplateInDirective ==
    SubSeq(prompt, IndexOf("CHOICE CONSEQUENCES:") + 3, IndexOf("CHOICE CONSEQUENCES:") + 4)

(* C14: the directive holds the HIGH RISK / SAFE OPTION template exactly when
   the crisis level is critical or desperate, the MODERATE RISK / LOW RISK
   template for struggling, stable and thriving, and never both. *)
C14_ChoiceTemplateByCrisis ==
    (Classified /\ Composed) =>
        /\ TemplateInDirective =
              (IF crisis \in {"critical", "desperate"}
                  THEN HighRiskLines ELSE ModerateRiskLines)
        /\ Cardinality(Occurrences({HighRiskLines[1], HighRiskLines[2],
                                    ModerateRiskLines[1], ModerateRiskLines[2]})) = 2

(* a desperate state got the HIGH RISK template *)
C14_Witness ==
    /\ Classified /\ Composed
    /\ crisis = "desperate"
    /\ TemplateInDirective = HighRiskLines

(* the active-problems block of the directive: the lines after the ACTIVE
   PROBLEMS heading up to the next blank line *)
ProblemsBlock ==
    LET a == IndexOf("ACTIVE PROBLEMS:")
        b == CHOOSE i \in (a + 1)..Len(prompt) :
                /\ prompt[i] = ""
                /\ \A j \in (a + 1)..(i - 1) : prompt[j] # ""
    IN  SubSeq(prompt, a + 1, b - 1)

(* the six problem lines in the order of the specification, each with its
   condition *)
ProblemTable ==
    << << state.food = 0, "- STARVING: Player will die soon without food" >>,
       << state.health <= 25, "- NEAR DEATH: Any combat could be fatal" >>,
       << state.gold <= 5, "- BROKE: Cannot afford basic necessities" >>,
       << state.corruption >= 50, "- CORRUPTED: Dark choices affecting all interactions" >>,
       << state.curses # << >>, "- CURSED: " \o Join(state.curses, ", ") >>,
       << state.permanent_injuries # << >>,
          "- INJURED: " \o Join(state.permanent_injuries, ", ") >> >>

ProblemHolds(entry) == entry[1]

ExpectedProblems ==
    LET holding == SelectSeq(ProblemTable, ProblemHolds)
    IN  [i \in 1..Len(holding) |-> holding[i][2]]

(* C15: the active-problems block holds the STARVING line iff food == 0, the
   NEAR DEATH line iff health <= 25, the BROKE line iff gold <= 5, the
   CORRUPTED line iff corruption >= 50, the CURSED line iff there are curses,
   the INJURED line iff there are permanent injuries, in that order and nothing
   else; it is the single line 'No immediate threats' iff none of the six
   holds. *)
C15_ActiveProblems ==
    Composed =>
        /\ OccursOnce("ACTIVE PROBLEMS:")
        /\ ProblemsBlock =
              (IF ExpectedProblems = << >>
                  THEN <<"- No immediate threats">> ELSE ExpectedProblems)
        /\ (\E i \in DOMAIN prompt : prompt[i] = "- No immediate threats")
              <=> (\A i \in DOMAIN ProblemTable : ~ProblemTable[i][1])

(* health 37 of 150 is a ratio below 0.25 and above the absolute 25: no NEAR
   DEATH line, and with nothing else wrong the block is 'No immediate threats' *)
C15_Witness ==
    /\ Composed
    /\ state.health = 37 /\ state.max_health = 150
    /\ ProblemsBlock = <<"- No immediate threats">>

(* what the directive holds between the blank line that ends the active
   problems and the blank line before the SCENE REQUIREMENTS heading: nothing,
   or the PREVIOUS ACTION line and what follows it *)
PreviousActionBlock ==
    LET a == IndexOf("ACTIVE PROBLEMS:")
        b == CHOOSE i \in (a + 1)..Len(prompt) :
                /\ prompt[i] = ""
                /\ \A j \in (a + 1)..(i - 1) : prompt[j] # ""
    IN  SubSeq(prompt, b + 1, IndexOf("SCENE REQUIREMENTS:") - 2)

(* str() of the consequence mappings of the snapshots, as Python prints them *)
RenderedConsequences(d) ==
    IF d = << >> THEN "{}"
    ELSE IF d = << <<"health", [int |-> -25]>>, <<"gold", [int |-> 20]>>,
                   <<"reputation", [str |-> "unknown -> feared"]>> >>
        THEN "{'health': -25, 'gold': 20, 'reputation': 'unknown -> feared'}"
        ELSE "?"

(* C16 as stated: whenever a previous-choice string is supplied, the directive
   holds it as the previous action together with last_choice_consequences
   rendered as text; when none is supplied, neither appears. *)
C16_ChoiceAndConsequencesWheneverSupplied ==
    Composed =>
        PreviousActionBlock =
            (IF args.choice_made # None
                THEN << "PREVIOUS ACTION: " \o args.choice_made,
                        "CONSEQUENCES: "
                            \o RenderedConsequences(state.last_choice_consequences) >>
                ELSE << >>)

(* C16 amended: a non-empty previous-choice string appears as the previous
   action, followed by last_choice_consequences rendered as text exactly when
   that mapping is not empty; with no choice or the empty string neither
   appears. *)
C16_ChoiceAndConsequencesWhenNonEmpty ==
    Composed =>
        PreviousActionBlock =
            (IF args.choice_made \notin {None, ""}
                THEN <<"PREVIOUS ACTION: " \o args.choice_made>>
                     \o (IF state.last_choice_consequences # << >>
                            THEN <<"CONSEQUENCES: "
                                     \o RenderedConsequences(state.last_choice_consequences)>>
                            ELSE << >>)
                ELSE << >>)

(* a choice with recorded consequences: both lines are in the directive *)
C16_Witness ==
    /\ Composed
    /\ args.choice_made = "Fight the troll"
    /\ PreviousActionBlock =
          << "PREVIOUS ACTION: Fight the troll",
             "CONSEQUENCES: {'health': -25, 'gold': 20, 'reputation': 'unknown -> feared'}" >>

(* the closing checklist *)
Checklist ==
    << "1. Create engaging title reflecting current crisis level",
       "2. Write vivid description (2-3 sentences, use \\n for line breaks)",
       "3. Include summary of what happened since last scene",
       "4. Choose appropriate background color for mood",
       "5. Make choices feel meaningfully different",
       "6. Show how player's condition affects the situation",
       "7. Reflect reputation in NPC interactions",
       "8. Make resource scarcity feel real and impactful" >>

(* the index of the one line of the directive that is among the given lines *)
IndexAmong(lines) == CHOOSE i \in DOMAIN prompt : prompt[i] \in lines

(* C17: the directive holds its blocks in one order, each mandatory block
   once: the theme introduction, PLAYER STATE ANALYSIS, ACTIVE PROBLEMS, the
   PREVIOUS ACTION if any, SCENE REQUIREMENTS with the crisis block, the NPC
   BEHAVIOR line if any, RESOURCE ECONOMY with the player's gold, CHOICE
   CONSEQUENCES with its template, SCENE GENERATION with the 8 items. *)
C17_BlockOrder ==
    Composed =>
        LET intro == "You are creating an interactive adventure scene for a "
                        \o args.theme \o " themed story."
            goldLine == "- Food costs 5-15 gold (player has "
                        \o ToString(state.gold) \o ")"
            templates == {HighRiskLines[1], ModerateRiskLines[1]}
            previous == {"PREVIOUS ACTION: " \o c : c \in Choices \ {None}}
            pState == IndexOf("PLAYER STATE ANALYSIS:")
            pProblems == IndexOf("ACTIVE PROBLEMS:")
            pScene == IndexOf("SCENE REQUIREMENTS:")
            pMode == IndexAmong(ModeTitles)
            pEconomy == IndexOf("RESOURCE ECONOMY:")
            pGold == IndexOf(goldLine)
            pChoice == IndexOf("CHOICE CONSEQUENCES:")
            pTemplate == IndexAmong(templates)
            pGeneration == IndexOf("SCENE GENERATION:")
        IN  /\ Occurrences({intro}) = {1}
            /\ \A line \in { "PLAYER STATE ANALYSIS:", "ACTIVE PROBLEMS:",
                             "SCENE REQUIREMENTS:", "RESOURCE ECONOMY:", goldLine,
                             "CHOICE CONSEQUENCES:", "SCENE GENERATION:" } :
                  OccursOnce(line)
            /\ Cardinality(Occurrences(ModeTitles)) = 1
            /\ Cardinality(Occurrences(templates)) = 1
            /\ 1 < pState /\ pState < pProblems /\ pProblems < pScene
            /\ pScene < pMode /\ pMode < pEconomy /\ pEconomy < pGold
            /\ pGold < pChoice /\ pChoice < pTemplate /\ pTemplate < pGeneration
            /\ SubSeq(prompt, pGeneration + 1, pGeneration + 8) = Checklist
            /\ \A i \in Occurrences(previous) : pProblems < i /\ i < pScene
            /\ \A i \in Occurrences(NpcLines) : pMode < i /\ i < pEconomy

(* a directive with both optional blocks *)
C17_Witness ==
    /\ Composed
    /\ Occurrences({"PREVIOUS ACTION: Fight the troll"}) # {}
    /\ Occurrences(NpcLines) # {}

(* C19: get_crisis_level, get_resource_status, generate_consequence_context and
   generate_scene_prompt leave the PlayerState they are given and the
   GameStateManager unchanged, so that in any interleaving of the four calls on
   one snapshot each result is the one the call gives on that snapshot. *)
C19_CallsLeaveSnapshotUnchanged ==
    /\ [][state' = state /\ action_consequences' = action_consequences]_vars
    /\ [](/\ Classified => crisis = get_crisis_level(state)
          /\ Labelled => resources = get_resource_status(state)
          /\ Composed =>
                prompt = generate_scene_prompt(state, args.theme, args.choice_made)
          /\ consequence_context # NoContext =>
                \E previous_choice \in Choices :
                    consequence_context =
                        generate_consequence_context(state, previous_choice))

(* all four were called on a snapshot that carries every collection *)
C19_Witness ==
    /\ Classified /\ Labelled /\ Composed
    /\ consequence_context # NoContext
    /\ state.curses # << >>
    /\ state.permanent_injuries # << >>
    /\ state.last_choice_consequences # << >>

(* C20: apply_choice_consequences returns its input state with every field
   unchanged, whatever the choice text and the scene id, and draws no random
   number. *)
C20_ApplyIsNoOp ==
    applied # NotApplied =>
        /\ applied = state
        /\ random_draws = 0

(* called on a state whose food the survival cost would bring to 0 *)
C20_Witness ==
    /\ applied # NotApplied
    /\ state.food = 1
    /\ applied.food = 1

(* C21: handle_death returns a state whose deaths is the input's deaths + 1 and
   whose every other field has its default start value (health 100,
   max_health 100, gold 10, food 3, items ['rusty_dagger'], level 1,
   experience 0, corruption 0, reputation unknown, the four collections
   empty), and it leaves the input state unchanged. *)
C21_FreshStateButDeaths ==
    /\ [](fresh_state # NoFreshState =>
            fresh_state =
               [ health |-> 100, max_health |-> 100, gold |-> 10, food |-> 3,
                 items |-> <<"rusty_dagger">>, level |-> 1, experience |-> 0,
                 corruption |-> 0, reputation |-> "unknown",
                 deaths |-> state.deaths + 1,
                 scene_history |-> << >>, curses |-> << >>,
                 permanent_injuries |-> << >>,
                 last_choice_consequences |-> << >> ])
    /\ [][state' = state]_vars

(* handle_death was called on a dead, rich, cursed state that had died before *)
C21_Witness ==
    /\ fresh_state # NoFreshState
    /\ is_dead(state)
    /\ state.deaths >= 2
    /\ state.gold = 200
    /\ state.curses # << >>
    /\ state.scene_history # << >>
    /\ Len(state.items) = 2

DataModelInvariants(s) ==
    /\ 0 <= s.health /\ s.health <= s.max_health
    /\ s.max_health >= 1
    /\ s.gold >= 0
    /\ s.food >= 0
    /\ s.level >= 1
    /\ s.experience >= 0
    /\ 0 <= s.corruption /\ s.corruption <= 100
    /\ s.deaths >= 0
    /\ s.reputation \in ReputationType
    /\ Len(s.scene_history) <= 10

(* C22: every PlayerState reachable from a fresh PlayerState() by any sequence
   of apply_choice_consequences and handle_death calls satisfies the data-model
   invariants, and deaths never decreases along the sequence. *)
C22_RunKeepsDataModel ==
    /\ [](DataModelInvariants(state))
    /\ [][state'.deaths >= state.deaths]_vars

(* a run that died twice and then made a choice *)
C22_Witness ==
    /\ state.deaths >= 2
    /\ applied = state
    /\ last_call # NoCall
    /\ last_call.op = "apply_choice_consequences"

(* Where a request that offers the choice means to move the record *)
TargetOf(request) ==
    IF request.next_scene.player_state # NoPlayerState
       /\ request.next_scene.player_state.health <= 0
      THEN "start"
      ELSE request.scene_before.choices[request.choice].leads_to

(* C23 as stated: process_choice with a choice key the current scene offers
   moves the global record to 'start' when the next scene's player_state
   health is <= 0 and otherwise to the scene the choice leads to; with a key
   the scene does not offer, the global record is not written at all. *)
C23_MovesOrLeavesUnwritten ==
    [][ IF last_request'.offered
          THEN /\ game_state_table' # NoItem
               /\ game_state_table'.current_scene = TargetOf(last_request')
          ELSE game_state_table' = game_state_table ]_vars

(* C23, amended: with an offered key the record moves to 'start' or to the
   scene the choice leads to, unless the put_item of update_game_state raises;
   with a key that is not offered, and when that put_item raises, the record
   stays as it was, except that get_current_game_state writes the initial
   record (current_scene 'start', choices_made 0) when there was none. *)
C23_MovesUnlessPutRaises ==
    [][ IF /\ last_request'.offered
           /\ ~last_request'.put_raised
          THEN /\ game_state_table' # NoItem
               /\ game_state_table'.current_scene = TargetOf(last_request')
          ELSE \/ game_state_table' = game_state_table
               \/ /\ game_state_table = NoItem
                  /\ game_state_table' = DefaultGameState ]_vars

(* the player died in the next scene and the record went back to 'start'
   from another scene's choice *)
C23_Witness ==
    /\ last_request # NoRequest
    /\ last_request.offered
    /\ last_request.next_scene.player_state.health <= 0
    /\ game_state_table # NoItem
    /\ game_state_table.current_scene = "start"
    /\ game_state_table.choices_made >= 1

(* C24: lambda_handler never propagates an exception raised by a route
   handler: when scene, choice, option, stats or history handling raises, the
   response is status 200 carrying the error image; when a /choice/a or
   /choice/b request is processed without an exception the response is a 302
   redirect and no image body. *)
C24_ErrorImageOrRedirect ==
    last_request # NoRequest =>
        /\ last_request.raised # None =>
              /\ response.statusCode = 200
              /\ response.body = "base64(error image)"
              /\ response.isBase64Encoded
        /\ (last_request.path \in {"/choice/a", "/choice/b"}
              /\ last_request.raised = None) =>
              /\ response.statusCode = 302
              /\ "body" \notin DOMAIN response
              /\ "Location" \in DOMAIN response.headers

(* a /choice/b request on the scene whose choice b leads nowhere raised *)
C24_Witness ==
    /\ last_request # NoRequest
    /\ last_request.path = "/choice/b"
    /\ last_request.raised = KeyError
    /\ response.statusCode = 200
    /\ game_state_table.current_scene = "fantasy_start"

(* C26: across any sequence of sequentially processed choice requests the
   persisted choices_made counter of the global record never decreases, also
   when a storage read fails and get_current_game_state falls back to its
   default record (current_scene 'start', choices_made 0) before
   update_game_state writes. *)
C26_ChoicesMadeNeverDecreases ==
    [][ (game_state_table # NoItem /\ game_state_table' # NoItem) =>
            game_state_table'.choices_made >= game_state_table.choices_made ]_vars

PlayerStateInvariants(ps) ==
    /\ 0 <= ps.health /\ ps.health <= ps.max_health
    /\ ps.gold >= 0
    /\ ps.level >= 1
    /\ ps.max_health = 100 + 20 * (ps.level - 1)

(* the request called generate_player_state_for_scene with the current scene
   as previous_scene *)
GeneratedFromPrevious ==
    /\ last_request # NoRequest
    /\ last_request.generated

(* C27: every player state produced by a chain of
   generate_player_state_for_scene calls starting from INITIAL_PLAYER_STATE
   satisfies 0 <= health <= max_health, gold >= 0, level >= 1 and
   max_health = 100 + 20*(level - 1); experience and level never decrease
   along the chain, level rises by at most one per scene, and a level-up
   leaves health equal to max_health. *)
C27_ChainKeepsPlayerState ==
    /\ \A id \in DOMAIN story_scenes_table :
          PlayerStateInvariants(story_scenes_table[id].player_state)
    /\ GeneratedFromPrevious =>
          LET before == last_request.scene_before.player_state
              produced == last_request.next_scene.player_state
          IN  /\ PlayerStateInvariants(before)
              /\ PlayerStateInvariants(produced)
              /\ produced.experience >= before.experience
              /\ produced.level >= before.level
              /\ produced.level <= before.level + 1
              /\ produced.level > before.level => produced.health = produced.max_health

(* the fourth scene of a chain brought the level-up *)
C27_Witness ==
    /\ GeneratedFromPrevious
    /\ last_request.scene_before.player_state.level = 1
    /\ last_request.scene_before.player_state.experience >= 60
    /\ last_request.next_scene.player_state.level = 2
    /\ last_request.next_scene.player_state.health = 120

(* C28: generate_player_state_for_scene leaves the previous scene's
   player_state unchanged, including its items list, and never changes the
   module-level INITIAL_PLAYER_STATE or INITIAL_SCENE, also on a level-up that
   awards new items. *)
C28_PreviousSceneUnchanged ==
    /\ initial_items = <<"basic_sword", "leather_armor">>
    /\ GeneratedFromPrevious => last_request.scene_after = last_request.scene_before

(* C25: for any interleaving of concurrent choice requests on the shared
   global record, once all of them have completed, choices_made equals its
   initial value (0) plus the number of requests that reached
   update_game_state, and current_scene is the target written by one of those
   requests. *)
C25_NoIncrementLost ==
    (\A r \in DOMAIN in_flight : in_flight[r].pc = "done") =>
        LET reached == {r \in DOMAIN in_flight : in_flight[r].reached_update}
        IN  /\ game_state_table # NoItem
            /\ game_state_table.choices_made = 0 + Cardinality(reached)
            /\ reached # {} =>
                  game_state_table.current_scene \in
                      {in_flight[r].new_scene : r \in reached}

(* C29: get_crisis_level returns THRIVING only for states with
   health/max_health > 0.5, food >= 2, gold > 5, corruption < 50, fewer than 3
   curses, and (health/max_health < 0.7 or gold < 20); no state that satisfies
   all three STABLE conditions (ratio >= 0.7, food >= 2, gold >= 20) is ever
   classified THRIVING. *)
C29_ThrivingOnlyBelowStable ==
    /\ crisis = "thriving" =>
          /\ 2 * state.health > state.max_health
          /\ state.food >= 2
          /\ state.gold > 5
          /\ state.corruption < 50
          /\ Len(state.curses) < 3
          /\ \/ 10 * state.health < 7 * state.max_health
             \/ state.gold < 20
    /\ (/\ crisis # NotCalled
        /\ 10 * state.health >= 7 * state.max_health
        /\ state.food >= 2
        /\ state.gold >= 20) => crisis # "thriving"

(* THRIVING by a health ratio between 0.5 and 0.7, with the gold of STABLE *)
C29_Witness ==
    /\ crisis = "thriving"
    /\ state.gold >= 20
    /\ 10 * state.health < 7 * state.max_health

(* the directive holds the line *)
InDirective(line) == \E i \in DOMAIN prompt : prompt[i] = line

ProblemLines == { ProblemTable[k][2] : k \in DOMAIN ProblemTable }

(* C30: for every valid state with max_health <= 100, whenever the directive
   is built for crisis level CRITICAL (SURVIVAL MODE block), its
   active-problems block lists at least one problem line and never the
   'No immediate threats' line; the crisis level printed in the state summary
   always equals the level that selected the scene-requirement block. *)
C30_CriticalListsAProblem ==
    Composed =>
        /\ (/\ Valid(state)
            /\ state.max_health <= 100
            /\ InDirective(ModeTitle("critical"))) =>
               /\ \E i \in DOMAIN ProblemsBlock : ProblemsBlock[i] \in ProblemLines
               /\ ~InDirective("- No immediate threats")
        /\ \A level \in CrisisLevel :
              InDirective("Crisis Level: " \o Upper(level))
                  <=> InDirective(ModeTitle(level))
        /\ \E level \in CrisisLevel : InDirective(ModeTitle(level))

(* health 25 of 100 is critical by the ratio alone, and NEAR DEATH is the one
   problem listed *)
C30_Witness ==
    /\ Composed
    /\ state.health = 25 /\ state.max_health = 100
    /\ InDirective(ModeTitle("critical"))
    /\ InDirective("Crisis Level: CRITICAL")
    /\ ProblemsBlock = <<"- NEAR DEATH: Any combat could be fatal">>

====
